---- MODULE Spec2Model ----
(***************************************************************************)
(* Model of the matchbook order book.                                      *)
(*                                                                         *)
(* The repository holds two generations of the price ladder:               *)
(*   - src/engine/src/book.rs : OrderBook { insert, cancel, execute, .. }  *)
(*     over LimitLevels<P>, execute returning (is_filled, executions);     *)
(*   - src/src/book.rs        : OrderBook { insert_ask, insert_bid,        *)
(*     cancel_ask, cancel_bid, execute_bid, execute_ask, .. }.             *)
(* Both are modelled and driven by the same commands: `engine` is the      *)
(* book of src/engine/src/book.rs, `core` the book of src/src/book.rs.     *)
(*                                                                         *)
(* The MatchEngine of src/engine/src/engine.rs (books per symbol, the two   *)
(* indices, the accounts and the two counters) is the variable `me`; it is *)
(* driven by its own specification, EngineSpec.                           *)
(*                                                                         *)
(* BookOrderIds are 0-based as in the source; orders[id] of the source is  *)
(* orders[id + 1] of the model's sequences.                                *)
(***************************************************************************)
EXTENDS Integers, Sequences, FiniteSets, TLC

\* ------------------------------------------------------------------ bounds
\* prices drawn for placed orders: 1..MaxPrice
MaxPrice == 2
\* quantities drawn for placed orders: 1..MaxQty
MaxQty == 2
\* number of orders placed on one book (both ladders together)
MaxOrders == 4
\* number of orders a MatchEngine accepts (the cap of next_order_id)
MaxEngineOrders == 3
\* number of accounts a MatchEngine creates (the cap of next_account_id)
MaxAccounts == 1
\* number of orders placed on one book when update is among the operations
MaxUpdateOrders == 2
\* number of connection threads of the server
MaxConnections == 2
\* number of commands a connection sends
MaxCommands == 2

\* ------------------------------------------------------- scalar domain
\* Quantity(u32): the arithmetic of the source is modulo 2^32.  TLC's integers
\* are 32-bit signed, so the model wraps at 2^30; every quantity drawn is far
\* below it, and a subtraction that underflows still yields a huge value.
U32 == 1073741824

Prices == 1..MaxPrice

Quantities == 1..MaxQty

Bid == "Bid"

Ask == "Ask"

Sides == {Bid, Ask}

\* the two instantiations of LimitLevels<P>
PPrice == "Price"

PReverse == "Reverse<Price>"

\* Order::new(price, quantity)
new(price, quantity) ==
  [price |-> price, quantity |-> quantity, filled |-> 0, is_cancelled |-> FALSE]

\* Order::remaining: quantity - filled on u32 (wraps in a release build)
remaining(o) == (o.quantity - o.filled) % U32

\* Order::is_filled
is_filled(o) == o.filled >= o.quantity

\* ------------------------------------------------ keys of the level map
\* P::from(price): Price is itself, Reverse<Price> wraps the price
From(P, price) == IF P = PReverse THEN [rev |-> price] ELSE price

\* P::into(): unwraps the key into a Price
Into(P, key) == IF P = PReverse THEN key.rev ELSE key

\* faulty variant of KeyLess: Reverse<Price> ordered like Price
KeyLessUnreversed(P, a, b) == Into(P, a) < Into(P, b)

\* Ord of the key type: Price compares its u32, Reverse<T> compares swapped
KeyLess(P, a, b) == IF P = PReverse THEN b.rev < a.rev ELSE a < b

\* ------------------------------------------- BTreeMap<P, VecDeque<OrderId>>
\* The map is the sequence of its entries [key, fifo] in ascending key order
\* (the iteration order of a BTreeMap).

\* index of the entry of key k, 0 when the map has no such key
Find(m, k) ==
  IF \E i \in 1..Len(m) : m[i].key = k
    THEN CHOOSE i \in 1..Len(m) : m[i].key = k
    ELSE 0

\* BTreeMap::remove(k)
Remove(m, k) ==
  LET keep(e) == e.key # k
  IN  SelectSeq(m, keep)

\* BTreeMap::entry(k).or_default().push_back(id)
EntryPushBack(P, m, k, id) ==
  LET i == Find(m, k)
  IN  IF i # 0
        THEN [m EXCEPT ![i].fifo = Append(@, id)]
        ELSE LET before(e) == KeyLess(P, e.key, k)
                 after(e) == ~KeyLess(P, e.key, k)
             IN  SelectSeq(m, before) \o <<[key |-> k, fifo |-> <<id>>]>> \o SelectSeq(m, after)

\* position (1-based) of id in a VecDeque, 0 when absent: find_index_of_id
IndexOf(q, id) ==
  IF \E i \in 1..Len(q) : q[i] = id
    THEN CHOOSE i \in 1..Len(q) : q[i] = id /\ \A j \in 1..(i - 1) : q[j] # id
    ELSE 0

\* VecDeque::remove(index)
RemoveAt(q, i) == SubSeq(q, 1, i - 1) \o SubSeq(q, i + 1, Len(q))

\* ------------------------------------------------------- LimitLevels<P>
\* LimitLevels::default()
EmptyLevels == [limit_levels |-> <<>>, orders |-> <<>>]

\* LimitLevels::get(id)
InRange(L, id) == id >= 0 /\ id < Len(L.orders)

\* faulty variant of best_price: keys().next_back(), the last key of the map
best_price_last(P, L) ==
  IF L.limit_levels = <<>> THEN 0 ELSE Into(P, L.limit_levels[Len(L.limit_levels)].key)

\* LimitLevels::best_price (engine): first key, or Price::default() = 0
best_price(P, L) ==
  IF L.limit_levels = <<>> THEN 0 ELSE Into(P, L.limit_levels[1].key)

\* LimitLevels::price (core): Some(first key) as <<price>>, None as <<>>
ladder_price(P, L) ==
  IF L.limit_levels = <<>> THEN <<>> ELSE <<Into(P, L.limit_levels[1].key)>>

\* LimitLevels::level(price) as the list of ids; <<>> stands for None
\* (a level present in the map is looked up by the key of the price)
level(P, L, price) ==
  LET i == Find(L.limit_levels, From(P, price))
  IN  IF i = 0 THEN <<>> ELSE L.limit_levels[i].fifo

\* LimitLevels::first: the front of the FIFO of the first key, Some(id) as
\* <<id>>; None (<<>>) without a key, or when that FIFO is empty
first(L) ==
  IF L.limit_levels = <<>>
    THEN <<>>
    ELSE IF L.limit_levels[1].fifo = <<>> THEN <<>> ELSE <<Head(L.limit_levels[1].fifo)>>

\* faulty variant of insert: the id is read from orders.len() after the push
insert_id_after_push(P, L, order) ==
  IF order.is_cancelled
    THEN [ladder |-> L, id |-> -1, panic |-> TRUE]
    ELSE [ladder |-> [limit_levels |-> EntryPushBack(P, L.limit_levels, From(P, order.price),
                                                       Len(L.orders) + 1),
                      orders |-> Append(L.orders, order)],
          id |-> Len(L.orders) + 1,
          panic |-> FALSE]

\* LimitLevels::insert(order); the assert_eq!(order.is_cancelled, false)
\* aborts the call before anything is changed
insert(P, L, order) ==
  IF order.is_cancelled
    THEN [ladder |-> L, id |-> -1, panic |-> TRUE]
    ELSE LET id == Len(L.orders)
         IN  [ladder |-> [limit_levels |-> EntryPushBack(P, L.limit_levels, From(P, order.price), id),
                          orders |-> Append(L.orders, order)],
              id |-> id,
              panic |-> FALSE]

\* faulty variant of cancel: the id is marked cancelled but
\* limit_level.remove(removal_index) is left out, so it stays queued
cancel_keeps_id(P, L, id) ==
  IF ~InRange(L, id)
    THEN [ladder |-> L, ret |-> FALSE]
    ELSE IF IndexOf(level(P, L, L.orders[id + 1].price), id) = 0
           THEN [ladder |-> L, ret |-> FALSE]
           ELSE [ladder |-> [L EXCEPT !.orders[id + 1].is_cancelled = TRUE], ret |-> TRUE]

\* faulty variant of cancel: the front of the level is removed, whichever id
\* was named
cancel_pops_front(P, L, id) ==
  IF ~InRange(L, id)
    THEN [ladder |-> L, ret |-> FALSE]
    ELSE IF IndexOf(level(P, L, L.orders[id + 1].price), id) = 0
           THEN [ladder |-> L, ret |-> FALSE]
           ELSE [ladder |->
                   [limit_levels |->
                      IF Len(level(P, L, L.orders[id + 1].price)) = 1
                        THEN Remove(L.limit_levels, From(P, L.orders[id + 1].price))
                        ELSE [L.limit_levels EXCEPT
                                ![Find(L.limit_levels, From(P, L.orders[id + 1].price))].fifo = Tail(@)],
                    orders |-> [L.orders EXCEPT ![id + 1].is_cancelled = TRUE]],
                 ret |-> TRUE]

\* faulty variant of cancel: the level is kept in the map when the removal
\* leaves it empty
cancel_keeps_level(P, L, id) ==
  IF ~InRange(L, id)
    THEN [ladder |-> L, ret |-> FALSE]
    ELSE IF IndexOf(level(P, L, L.orders[id + 1].price), id) = 0
           THEN [ladder |-> L, ret |-> FALSE]
           ELSE [ladder |->
                   [limit_levels |->
                      [L.limit_levels EXCEPT
                         ![Find(L.limit_levels, From(P, L.orders[id + 1].price))].fifo =
                            RemoveAt(@, IndexOf(@, id))],
                    orders |-> [L.orders EXCEPT ![id + 1].is_cancelled = TRUE]],
                 ret |-> TRUE]

\* faulty variant of cancel: the cancelled record is reset to filled = 0
cancel_resets_filled(P, L, id) ==
  IF ~InRange(L, id)
    THEN [ladder |-> L, ret |-> FALSE]
    ELSE IF IndexOf(level(P, L, L.orders[id + 1].price), id) = 0
           THEN [ladder |-> L, ret |-> FALSE]
           ELSE [ladder |->
                   [limit_levels |->
                      IF Len(level(P, L, L.orders[id + 1].price)) = 1
                        THEN Remove(L.limit_levels, From(P, L.orders[id + 1].price))
                        ELSE [L.limit_levels EXCEPT
                                ![Find(L.limit_levels, From(P, L.orders[id + 1].price))].fifo =
                                   RemoveAt(@, IndexOf(@, id))],
                    orders |-> [L.orders EXCEPT ![id + 1].is_cancelled = TRUE,
                                                ![id + 1].filled = 0]],
                 ret |-> TRUE]

\* LimitLevels::cancel(id)
cancel(P, L, id) ==
  IF ~InRange(L, id)
    THEN [ladder |-> L, ret |-> FALSE]
    ELSE LET order == L.orders[id + 1]
             i == Find(L.limit_levels, From(P, order.price))
         IN  IF i = 0
               THEN [ladder |-> L, ret |-> FALSE]
               ELSE LET limit_level == L.limit_levels[i].fifo
                        removal_index == IndexOf(limit_level, id)
                    IN  IF removal_index = 0
                          THEN [ladder |-> L, ret |-> FALSE]
                          ELSE LET shorter == RemoveAt(limit_level, removal_index)
                                   levels1 == [L.limit_levels EXCEPT ![i].fifo = shorter]
                                   levels2 == IF shorter = <<>>
                                                THEN Remove(levels1, From(P, order.price))
                                                ELSE levels1
                               IN  [ladder |-> [limit_levels |-> levels2,
                                                orders |-> [L.orders EXCEPT ![id + 1].is_cancelled = TRUE]],
                                    ret |-> TRUE]

\* ---------------------------------------------------- LimitLevels::execute
\* faulty variant of to_fill: the incoming remaining, without the min
to_fill_incoming(against, order) == remaining(order)

\* line 207 (engine) / 184 (core): number of fills is bounded by the least remaining
to_fill(against, order) ==
  LET a == remaining(against)
      b == remaining(order)
  IN  IF a <= b THEN a ELSE b

\* faulty variant of fill_incoming: the incoming order is not credited
fill_incoming_skipped(order, q) == order

\* line 208: order.filled += to_fill
fill_incoming(order, q) == [order EXCEPT !.filled = (@ + q) % U32]

\* line 209: against.filled += to_fill
fill_against(against, q) == [against EXCEPT !.filled = (@ + q) % U32]

\* engine line 212: the condition under which the popped id is pushed back to
\* the front of the level
engine_push_front(against) == is_filled(against)

\* core line 189: the condition under which the popped id is pushed back to
\* the front of the level
core_push_front(ask) == ask.filled < ask.quantity

\* The state of the matching loop is
\*   st = [level, orders, order, should_remove_level, executions]:
\* the FIFO of the level, the orders array of the ladder, the incoming order,
\* and the two locals of execute.

\* The end of one pass of the loop (lines 211-218 of the engine ladder, 188-195
\* of the core ladder) once id is popped and both orders are filled by q:
\* push the id back or mark the level for removal, record the execution.
EndPass(st, id, against, order, push_front, execution) ==
  [level |-> IF push_front THEN <<id>> \o Tail(st.level) ELSE Tail(st.level),
   orders |-> [st.orders EXCEPT ![id + 1] = against],
   order |-> order,
   should_remove_level |-> IF ~push_front /\ Tail(st.level) = <<>>
                             THEN TRUE
                             ELSE st.should_remove_level,
   executions |-> Append(st.executions, execution)]

\* engine lines 208-218 for the popped id and to_fill = q
engine_filled(st, id, q, against) ==
  EndPass(st, id, against, fill_incoming(st.order, q),
          engine_push_front(against), <<id, q, is_filled(against)>>)

\* engine lines 205-218: one pass of `while let Some(id) = pop_front()`
engine_pass(st, id, q) == engine_filled(st, id, q, fill_against(st.orders[id + 1], q))

\* core lines 185-195 for the popped id and to_fill = q
core_filled(st, id, q, ask) ==
  EndPass(st, id, ask, fill_incoming(st.order, q), core_push_front(ask), <<id, q>>)

\* core lines 182-195: one pass of `while let Some(id) = pop_front()`
core_pass(st, id, q) == core_filled(st, id, q, fill_against(st.orders[id + 1], q))

\* LimitLevels::update(id, maybe_price, maybe_quantity), the same in both
\* crates: the price and the quantity of the record are overwritten, each when
\* it is Some (<<x>>; None is <<>>); limit_levels is not touched and nothing
\* is compared with filled.  true iff the id is in range.
update(L, id, maybe_price, maybe_quantity) ==
  IF ~InRange(L, id)
    THEN [ladder |-> L, ret |-> FALSE]
    ELSE [ladder |->
            [L EXCEPT !.orders[id + 1].price =
                          IF maybe_price # <<>> THEN maybe_price[1] ELSE @,
                      !.orders[id + 1].quantity =
                          IF maybe_quantity # <<>> THEN maybe_quantity[1] ELSE @],
          ret |-> TRUE]

\* the loop state execute starts from
LoopStart(L, i, order) ==
  [level |-> L.limit_levels[i].fifo,
   orders |-> L.orders,
   order |-> order,
   should_remove_level |-> FALSE,
   executions |-> <<>>]

\* faulty variant of LadderAfter: should_remove_level removes the first key
\* of the map, the best price, not the key of the order's price
LadderAfterDropsBest(P, L, i, st) ==
  [limit_levels |-> IF st.should_remove_level
                      THEN Tail([L.limit_levels EXCEPT ![i].fifo = st.level])
                      ELSE [L.limit_levels EXCEPT ![i].fifo = st.level],
   orders |-> st.orders]

\* after the loop: the level keeps what the loop left of it, and is removed
\* from the map when should_remove_level is set
LadderAfter(P, L, i, st) ==
  [limit_levels |-> IF st.should_remove_level
                      THEN Remove([L.limit_levels EXCEPT ![i].fifo = st.level],
                                  From(P, st.order.price))
                      ELSE [L.limit_levels EXCEPT ![i].fifo = st.level],
   orders |-> st.orders]

\* The loop of the engine ladder, lines 205-223; the result is the loop state
\* with a field hung.  A pass that does not break and leaves level, orders and
\* order as they were is repeated identically for ever (only executions
\* grows): the call never returns, and hung is TRUE.
RECURSIVE engine_loop(_)
engine_after_pass(st, next) ==
  IF next.order.filled = next.order.quantity
    THEN [st |-> next, hung |-> FALSE]
    ELSE IF next.level = st.level /\ next.orders = st.orders /\ next.order = st.order
           THEN [st |-> next, hung |-> TRUE]
           ELSE engine_loop(next)

engine_loop(st) ==
  IF st.level = <<>>
    THEN [st |-> st, hung |-> FALSE]
    ELSE engine_after_pass(st, engine_pass(st, Head(st.level),
                                           to_fill(st.orders[Head(st.level) + 1], st.order)))

\* lines 226-230 of the engine ladder
engine_return(P, L, i, r) ==
  [ladder |-> LadderAfter(P, L, i, r.st),
   order |-> r.st.order,
   is_filled |-> is_filled(r.st.order),
   executions |-> r.st.executions,
   hung |-> r.hung]

\* lines 204-230 of the engine ladder, i being the index of the level
engine_at_level(P, L, i, order) ==
  IF i = 0
    THEN [ladder |-> L, order |-> order, is_filled |-> is_filled(order),
          executions |-> <<>>, hung |-> FALSE]
    ELSE engine_return(P, L, i, engine_loop(LoopStart(L, i, order)))

\* faulty variant of execute: without a level at the order's price the
\* order is matched at the best level of the ladder
execute_any_level(P, L, order) ==
  IF remaining(order) = 0
    THEN [ladder |-> L, order |-> order, is_filled |-> TRUE, executions |-> <<>>, hung |-> FALSE]
    ELSE IF Find(L.limit_levels, From(P, order.price)) = 0 /\ L.limit_levels # <<>>
           THEN engine_at_level(P, L, 1, order)
           ELSE engine_at_level(P, L, Find(L.limit_levels, From(P, order.price)), order)

\* LimitLevels::execute of src/engine/src/book.rs, lines 197-231.
\* Result: [ladder, order, is_filled, executions, hung].
execute(P, L, order) ==
  IF remaining(order) = 0
    THEN [ladder |-> L, order |-> order, is_filled |-> TRUE, executions |-> <<>>, hung |-> FALSE]
    ELSE engine_at_level(P, L, Find(L.limit_levels, From(P, order.price)), order)

\* faulty variant of core_after_pass: the loop ends after its first pass
core_after_pass_once(next) == next

\* The loop of the core ladder, src/src/book.rs lines 182-200.
RECURSIVE core_loop(_)
core_after_pass(next) ==
  IF next.order.filled = next.order.quantity THEN next ELSE core_loop(next)

core_loop(st) ==
  IF st.level = <<>>
    THEN st
    ELSE core_after_pass(core_pass(st, Head(st.level),
                                   to_fill(st.orders[Head(st.level) + 1], st.order)))

\* lines 203-207 of the core ladder
core_return(P, L, i, st) ==
  [ladder |-> LadderAfter(P, L, i, st), order |-> st.order, executions |-> st.executions]

\* lines 181-207 of the core ladder, i being the index of the level
core_at_level(P, L, i, bid) ==
  IF i = 0
    THEN [ladder |-> L, order |-> bid, executions |-> <<>>]
    ELSE core_return(P, L, i, core_loop(LoopStart(L, i, bid)))

\* LimitLevels::execute of src/src/book.rs, lines 174-208.
\* Result: [ladder, order, executions].
core_execute(P, L, bid) ==
  IF remaining(bid) = 0
    THEN [ladder |-> L, order |-> bid, executions |-> <<>>]
    ELSE core_at_level(P, L, Find(L.limit_levels, From(P, bid.price)), bid)

\* ------------------------------------------------ OrderBook (engine crate)
\* OrderBook::default()
EmptyBook == [bids |-> EmptyLevels, asks |-> EmptyLevels]

\* the key type of a side's ladder: bids: LimitLevels<Reverse<Price>>,
\* asks: LimitLevels<Price>
KeyType(side) == IF side = Bid THEN PReverse ELSE PPrice

Opposite(side) == IF side = Bid THEN Ask ELSE Bid

\* the ladder of a side of a book
Ladder(book, side) == IF side = Bid THEN book.bids ELSE book.asks

WithLadder(book, side, L) ==
  IF side = Bid THEN [book EXCEPT !.bids = L] ELSE [book EXCEPT !.asks = L]

\* OrderBook::best_price(side)
book_best_price(book, side) == best_price(KeyType(side), Ladder(book, side))

\* the if of spread: the difference of the two prices, larger minus smaller
price_difference(ask, bid) == IF ask > bid THEN ask - bid ELSE bid - ask

\* OrderBook::spread of src/engine/src/book.rs: a Price in every case, the
\* best price of an empty side being Price::default() = 0
spread(book) ==
  price_difference(book_best_price(book, Ask), book_best_price(book, Bid))

\* OrderBook::update(side, id, maybe_price, maybe_quantity)
book_update(book, side, id, maybe_price, maybe_quantity) ==
  [book |-> WithLadder(book, side, update(Ladder(book, side), id, maybe_price, maybe_quantity).ladder),
   ret |-> update(Ladder(book, side), id, maybe_price, maybe_quantity).ret]

\* the match of OrderBook::first on (asks.first(), bids.first()):
\* Some((side, id)) as <<<<side, id>>>>, None as <<>>
first_of(ask, bid) ==
  IF ask # <<>> /\ bid # <<>>
    THEN IF ask[1] < bid[1] THEN <<<<Ask, ask[1]>>>> ELSE <<<<Bid, bid[1]>>>>
    ELSE IF ask # <<>>
           THEN <<<<Ask, ask[1]>>>>
           ELSE IF bid # <<>> THEN <<<<Bid, bid[1]>>>> ELSE <<>>

\* OrderBook::first
book_first(book) == first_of(first(book.asks), first(book.bids))

\* OrderBook::insert(side, order)
book_insert(book, side, order) ==
  LET r == insert(KeyType(side), Ladder(book, side), order)
  IN  [book |-> WithLadder(book, side, r.ladder), id |-> r.id, panic |-> r.panic]

\* OrderBook::cancel(side, id)
book_cancel(book, side, id) ==
  LET r == cancel(KeyType(side), Ladder(book, side), id)
  IN  [book |-> WithLadder(book, side, r.ladder), ret |-> r.ret]

\* a book after an execute: the opposite ladder as the match left it, and the
\* incoming order written through the &mut borrow of its own ladder
BookAfter(book, side, id, r) ==
  WithLadder(WithLadder(book, Opposite(side), r.ladder),
             side,
             [Ladder(book, side) EXCEPT !.orders[id + 1] = r.order])

\* the value OrderBook::execute returns, and the book it leaves
book_executed(book, side, id, r) ==
  [book |-> BookAfter(book, side, id, r),
   is_filled |-> r.is_filled,
   executions |-> r.executions,
   hung |-> r.hung,
   panic |-> FALSE]

\* OrderBook::execute(side, id): the order of `side` is the incoming order and
\* is matched against the opposite ladder; an id out of range reaches
\* unimplemented!() and aborts the call
book_execute(book, side, id) ==
  IF ~InRange(Ladder(book, side), id)
    THEN [book |-> book, is_filled |-> FALSE, executions |-> <<>>, hung |-> FALSE, panic |-> TRUE]
    ELSE book_executed(book, side, id,
                       execute(KeyType(Opposite(side)), Ladder(book, Opposite(side)),
                               Ladder(book, side).orders[id + 1]))

\* the match of spread on (asks.price(), bids.price()): Some(difference) as
\* <<difference>> when both are Some, else None as <<>>
spread_of(ask, bid) ==
  IF ask # <<>> /\ bid # <<>> THEN <<price_difference(ask[1], bid[1])>> ELSE <<>>

\* OrderBook::spread of src/src/book.rs
core_spread(book) ==
  spread_of(ladder_price(PPrice, book.asks), ladder_price(PReverse, book.bids))

\* OrderBook::ask_market_price of src/src/book.rs: self.asks.price()
ask_market_price(book) == ladder_price(PPrice, book.asks)

\* OrderBook::bid_market_price of src/src/book.rs: it reads self.asks.price()
\* as well
bid_market_price(book) == ladder_price(PPrice, book.asks)

\* OrderBook::update_bid / update_ask
core_update(book, side, id, maybe_price, maybe_quantity) ==
  [book |-> WithLadder(book, side, update(Ladder(book, side), id, maybe_price, maybe_quantity).ladder),
   ret |-> update(Ladder(book, side), id, maybe_price, maybe_quantity).ret]

\* -------------------------------------------------- OrderBook (core crate)
\* OrderBook::insert_ask / insert_bid
core_insert(book, side, order) ==
  LET r == insert(KeyType(side), Ladder(book, side), order)
  IN  [book |-> WithLadder(book, side, r.ladder), id |-> r.id, panic |-> r.panic]

\* OrderBook::cancel_ask / cancel_bid
core_cancel(book, side, id) ==
  LET r == cancel(KeyType(side), Ladder(book, side), id)
  IN  [book |-> WithLadder(book, side, r.ladder), ret |-> r.ret]

\* the value execute_bid / execute_ask returns, and the book it leaves
core_executed(book, side, id, r) ==
  [book |-> BookAfter(book, side, id, r), executions |-> r.executions]

\* OrderBook::execute_bid / execute_ask: an id out of range gives vec![]
core_book_execute(book, side, id) ==
  IF ~InRange(Ladder(book, side), id)
    THEN [book |-> book, executions |-> <<>>]
    ELSE core_executed(book, side, id,
                       core_execute(KeyType(Opposite(side)), Ladder(book, Opposite(side)),
                                    Ladder(book, side).orders[id + 1]))

\* ------------------------------------------------ MatchEngine: state
\* HashMap::new()
EmptyMap == [k \in {} |-> k]

\* HashMap::insert(k, v): the entry of k is written whether or not k was there
Put(map, k, v) == [x \in (DOMAIN map) \cup {k} |-> IF x = k THEN v ELSE map[x]]

\* Account::default()
DefaultAccount == [balance |-> 0, orders |-> <<>>, portfolio |-> EmptyMap]

\* MatchEngine::default()
EmptyEngine ==
  [books |-> EmptyMap,
   id_to_order_path_index |-> EmptyMap,
   order_path_to_id_index |-> EmptyMap,
   accounts |-> EmptyMap,
   next_order_id |-> 0,
   next_account_id |-> 0]

\* ------------------------------------------- the orders of src/src/order.rs
\* the price, the quantity and the filled quantity of the bid of the unit test
TestPrice == 100

TestQuantity == 100

TestFilled == 20

\* AskOrder::new and BidOrder::new: nothing filled
AskOrder_new(price, quantity) == [price |-> price, quantity |-> quantity, filled |-> 0]

BidOrder_new(price, quantity) == [price |-> price, quantity |-> quantity, filled |-> 0]

\* Order::is_filled of src/src/order.rs
order_is_filled(o) == o.filled >= o.quantity

\* Order::remaining of src/src/order.rs; Quantity wraps an unsigned integer,
\* the modulus standing for that of its width
order_remaining(o) == (o.quantity - o.filled) % U32

\* Quantity::min (Ord::min of the derived order)
quantity_min(a, b) == IF a <= b THEN a ELSE b

\* faulty variant of is_fillable_by: a bid at or above the ask is fillable
is_fillable_by_crossing(ask, bid) ==
  ~order_is_filled(ask) /\ ~order_is_filled(bid) /\ bid.price >= ask.price

\* Order::is_fillable_by
is_fillable_by(ask, bid) ==
  ~order_is_filled(ask) /\ ~order_is_filled(bid) /\ bid.price = ask.price

\* Order::fill
fill(ask, bid) ==
  IF is_fillable_by(ask, bid)
    THEN quantity_min(order_remaining(bid), order_remaining(ask))
    ELSE 0

\* ------------------------------------------------------------ the machine
VARIABLES
  engine,      \* the OrderBook of src/engine/src/book.rs
  engineHung,  \* TRUE once an execute of the engine book did not return
  core,        \* the OrderBook of src/src/book.rs
  volume,      \* per book, the sum of the fill quantities returned by execute
  cancelled    \* per book, the (side, id) for which cancel has returned true

vars == <<engine, engineHung, core, volume, cancelled>>

VARIABLES
  me,          \* the MatchEngine of src/engine/src/engine.rs
  meDown,      \* TRUE once a call on the MatchEngine aborted or did not return
  placements   \* the (id, order) of every Success::PlaceOrder returned so far

mvars == <<me, meDown, placements>>

VARIABLES
  mutex,       \* the Mutex around the shared engine: its holder, and poisoned
  conn,        \* per connection thread: its position, command and commands sent
  log          \* the try_process calls ended so far, with their results

svars == <<mutex, conn, log>>

VARIABLES
  askOrder,    \* an order of src/src/order.rs, the first argument of fill
  bidOrder,    \* an order of src/src/order.rs, the second argument of fill
  fillCall     \* the last call of Order::fill: its arguments and its result

ovars == <<askOrder, bidOrder, fillCall>>

\* sum of the quantities of a list of fills (id, quantity, ..)
RECURSIVE SumQty(_)
SumQty(fills) == IF fills = <<>> THEN 0 ELSE Head(fills)[2] + SumQty(Tail(fills))

\* number of orders placed on a book
Placed(book) == Len(book.bids.orders) + Len(book.asks.orders)

\* the ids a command may name on a side: every id handed out, and the next
\* one, which is out of range
Ids(side) == 0..Len(Ladder(core, side).orders)

\* the connection threads of the server
Connections == 1..MaxConnections

\* the mutex holder when no thread holds the guard
NoHolder == 0

\* a connection thread between two commands
Idle == [pc |-> "idle", command |-> <<>>, seen |-> <<>>, sent |-> <<>>]

\* the mutex free and not poisoned, every connection idle, nothing processed
SInit ==
  /\ mutex = [holder |-> NoHolder, poisoned |-> FALSE]
  /\ conn = [c \in Connections |-> Idle]
  /\ log = <<>>

\* the two orders of the unit test of src/src/order.rs, fill not called yet
OInit ==
  /\ askOrder = AskOrder_new(TestPrice, TestQuantity)
  /\ bidOrder = [price |-> TestPrice, quantity |-> TestQuantity, filled |-> TestFilled]
  /\ fillCall = <<>>

Init ==
  /\ engine = EmptyBook
  /\ engineHung = FALSE
  /\ core = EmptyBook
  /\ volume = [engine |-> 0, core |-> 0]
  /\ cancelled = [engine |-> {}, core |-> {}]

\* MatchEngine::default(), up and with nothing placed
MInit ==
  /\ me = EmptyEngine
  /\ meDown = FALSE
  /\ placements = <<>>

\* place Order::new(price, quantity) on a side of both books
Insert(side, price, quantity) ==
  /\ Placed(core) < MaxOrders
  /\ engine' = IF engineHung THEN engine ELSE book_insert(engine, side, new(price, quantity)).book
  /\ core' = core_insert(core, side, new(price, quantity)).book
  /\ UNCHANGED <<engineHung, volume, cancelled>>
  /\ UNCHANGED <<mvars, svars, ovars>>

\* the book-keeping of a cancel the two books answered e and c
Cancelled(side, id, e, c) ==
  cancelled' = [engine |-> IF ~engineHung /\ e.ret
                             THEN cancelled.engine \cup {<<side, id>>}
                             ELSE cancelled.engine,
                core |-> IF c.ret THEN cancelled.core \cup {<<side, id>>} ELSE cancelled.core]

\* cancel(side, id) on both books
Cancel(side, id) ==
  /\ engine' = IF engineHung THEN engine ELSE book_cancel(engine, side, id).book
  /\ core' = core_cancel(core, side, id).book
  /\ Cancelled(side, id, book_cancel(engine, side, id), core_cancel(core, side, id))
  /\ UNCHANGED <<engineHung, volume>>
  /\ UNCHANGED <<mvars, svars, ovars>>

\* the engine book after execute(side, id) answered e: a call that aborts
\* changes nothing; one that does not return leaves the engine book out of
\* every later command
EngineExecuted(e) ==
  /\ engine' = IF engineHung \/ e.panic \/ e.hung THEN engine ELSE e.book
  /\ engineHung' = (engineHung \/ (~e.panic /\ e.hung))

\* the volume after the two books answered e and c
Reported(e, c) ==
  volume' = [engine |-> volume.engine
                          + (IF engineHung \/ e.panic \/ e.hung THEN 0 ELSE SumQty(e.executions)),
             core |-> volume.core + SumQty(c.executions)]

Executed(e, c) ==
  /\ EngineExecuted(e)
  /\ core' = c.book
  /\ Reported(e, c)
  /\ UNCHANGED cancelled
  /\ UNCHANGED <<mvars, svars, ovars>>

\* execute(side, id) on both books
Execute(side, id) ==
  Executed(book_execute(engine, side, id), core_book_execute(core, side, id))

Next ==
  \/ \E side \in Sides, price \in Prices, quantity \in Quantities : Insert(side, price, quantity)
  \/ \E side \in Sides : \E id \in Ids(side) : Cancel(side, id)
  \/ \E side \in Sides : \E id \in Ids(side) : Execute(side, id)

\* both books empty and MatchEngine::default()
Start == Init /\ MInit /\ SInit /\ OInit

Spec == Start /\ [][Next]_<<vars, mvars, svars, ovars>>

\* ------------------------------------------------ the books under update
\* The machine of the two books with update among the operations.  A
\* quantity updated below filled makes remaining() underflow; as everywhere in
\* this model the subtraction wraps (the release build).

\* Option<Price> and Option<Quantity> arguments: None is <<>>, Some(x) is <<x>>
MaybePrices == {<<>>} \cup {<<price>> : price \in Prices}

MaybeQuantities == {<<>>} \cup {<<quantity>> : quantity \in Quantities}

\* place Order::new(price, quantity) on a side of both books
UpdateInsert(side, price, quantity) ==
  /\ Placed(core) < MaxUpdateOrders
  /\ Insert(side, price, quantity)

\* update(side, id, maybe_price, maybe_quantity) on both books
Update(side, id, maybe_price, maybe_quantity) ==
  /\ engine' = IF engineHung
                 THEN engine
                 ELSE book_update(engine, side, id, maybe_price, maybe_quantity).book
  /\ core' = core_update(core, side, id, maybe_price, maybe_quantity).book
  /\ UNCHANGED <<engineHung, volume, cancelled>>
  /\ UNCHANGED <<mvars, svars, ovars>>

\* execute(side, id) on both books, which answer e and c.  The volume is the
\* history of the machine without update and is not kept here: a wrapped
\* remaining() makes a single fill as large as 2^32 - 1.
UpdateExecuted(e, c) ==
  /\ EngineExecuted(e)
  /\ core' = c.book
  /\ UNCHANGED <<volume, cancelled>>
  /\ UNCHANGED <<mvars, svars, ovars>>

UpdateExecute(side, id) ==
  UpdateExecuted(book_execute(engine, side, id), core_book_execute(core, side, id))

UpdateNext ==
  \/ \E side \in Sides, price \in Prices, quantity \in Quantities :
       UpdateInsert(side, price, quantity)
  \/ \E side \in Sides : \E id \in Ids(side) : Cancel(side, id)
  \/ \E side \in Sides : \E id \in Ids(side) : UpdateExecute(side, id)
  \/ \E side \in Sides : \E id \in Ids(side) :
       \E maybe_price \in MaybePrices, maybe_quantity \in MaybeQuantities :
         Update(side, id, maybe_price, maybe_quantity)

UpdateSpec == Start /\ [][UpdateNext]_<<vars, mvars, svars, ovars>>

\* ------------------------------------------------ MatchEngine: commands
\* CommandKind, src/engine/src/engine.rs lines 38-46
CancelOrder(id) == [kind |-> "CancelOrder", id |-> id]

PlaceOrder(side, symbol, order) ==
  [kind |-> "PlaceOrder", side |-> side, symbol |-> symbol, order |-> order]

GetOrder(id) == [kind |-> "GetOrder", id |-> id]

ExecuteOrder(id) == [kind |-> "ExecuteOrder", id |-> id]

GetQuote(symbol, side) == [kind |-> "GetQuote", symbol |-> symbol, side |-> side]

GetAccount(id) == [kind |-> "GetAccount", id |-> id]

\* Command { account_id, kind }
Command(account_id, kind) == [account_id |-> account_id, kind |-> kind]

\* what a call of try_process gives: the engine it leaves, and either
\* Ok(Success::kind(val)), Err(Error::kind { val }), an abort (a panic of
\* unwrap, assert_eq! or unimplemented!) or a call that never returns
Ok(m, kind, val) == [m |-> m, tag |-> "Ok", kind |-> kind, val |-> val]

Err(m, kind, val) == [m |-> m, tag |-> "Err", kind |-> kind, val |-> val]

Abort(m) == [m |-> m, tag |-> "panic", kind |-> "panic", val |-> 0]

Hang(m) == [m |-> m, tag |-> "hung", kind |-> "hung", val |-> 0]

\* MatchEngine::insert_new_symbol: HashMap::insert puts OrderBook::default()
\* under the symbol and returns the book it replaced; is_none() of that
insert_new_symbol(m, symbol) ==
  [m |-> [m EXCEPT !.books = Put(m.books, symbol, EmptyBook)],
   ret |-> symbol \notin DOMAIN m.books]

\* faulty variant of create_account: next_account_id is not advanced
create_account_reuses(m) ==
  [m |-> [m EXCEPT !.accounts = Put(m.accounts, m.next_account_id, DefaultAccount)],
   id |-> m.next_account_id]

\* MatchEngine::create_account
create_account(m) ==
  [m |-> [m EXCEPT !.next_account_id = m.next_account_id + 1,
                   !.accounts = Put(m.accounts, m.next_account_id, DefaultAccount)],
   id |-> m.next_account_id]

\* faulty variant of book_get: the order is read from the opposite ladder
book_get_opposite(book, side, id) ==
  IF InRange(Ladder(book, Opposite(side)), id)
    THEN <<Ladder(book, Opposite(side)).orders[id + 1]>>
    ELSE <<>>

\* OrderBook::get(side, id): Some(order) as <<order>>, None as <<>>
book_get(book, side, id) ==
  IF InRange(Ladder(book, side), id) THEN <<Ladder(book, side).orders[id + 1]>> ELSE <<>>

\* ------------------------------------------------ MatchEngine::try_process
\* line 99: order_path_to_id_index.get(&(symbol, side, id)), side being the
\* side of the order named by the command
reverse_key(symbol, side, id) == <<symbol, side, id>>

\* lines 94-103: every (id, quantity) of the fills is rewritten through the
\* reverse index; unwrap() aborts on a key the index does not hold, with the
\* book already changed by execute
execute_mapped(m, symbol, side, executions) ==
  IF \E k \in 1..Len(executions) :
       reverse_key(symbol, side, executions[k][1]) \notin DOMAIN m.order_path_to_id_index
    THEN Abort(m)
    ELSE Ok(m, "ExecuteOrder",
            [k \in 1..Len(executions) |->
               <<m.order_path_to_id_index[reverse_key(symbol, side, executions[k][1])],
                 executions[k][2]>>])

\* lines 92-105 once the book has answered r
execute_answered(m, symbol, side, r) ==
  IF r.panic
    THEN Abort(m)
    ELSE IF r.hung
           THEN Hang(m)
           ELSE execute_mapped([m EXCEPT !.books[symbol] = r.book], symbol, side, r.executions)

\* lines 91-105 for the path (symbol, side, book_id)
execute_path(m, symbol, side, book_id) ==
  IF symbol \notin DOMAIN m.books
    THEN Err(m, "SymbolDoesNotExist", symbol)
    ELSE execute_answered(m, symbol, side, book_execute(m.books[symbol], side, book_id))

\* ExecuteOrder(id), lines 89-106
execute_order(m, id) ==
  IF id \notin DOMAIN m.id_to_order_path_index
    THEN Err(m, "IdDoesNotExist", id)
    ELSE execute_path(m, m.id_to_order_path_index[id][1], m.id_to_order_path_index[id][2],
                      m.id_to_order_path_index[id][3])

\* line 110: *book.get(side, book_id).unwrap()
get_unwrapped(m, got) == IF got = <<>> THEN Abort(m) ELSE Ok(m, "GetOrder", got[1])

\* lines 109-110 for the path (symbol, side, book_id)
get_path(m, symbol, side, book_id) ==
  IF symbol \notin DOMAIN m.books
    THEN Err(m, "SymbolDoesNotExist", symbol)
    ELSE get_unwrapped(m, book_get(m.books[symbol], side, book_id))

\* GetOrder(id), lines 107-111
get_order(m, id) ==
  IF id \notin DOMAIN m.id_to_order_path_index
    THEN Err(m, "IdDoesNotExist", id)
    ELSE get_path(m, m.id_to_order_path_index[id][1], m.id_to_order_path_index[id][2],
                  m.id_to_order_path_index[id][3])

\* faulty variant of next_id: the counter is not advanced
next_id_kept(id) == id

\* line 117: self.next_order_id += 1.into()
next_id(id) == id + 1

\* lines 116-121 once the book has taken the order as book_id
place_indexed(m, symbol, side, book_id) ==
  Ok([m EXCEPT !.next_order_id = next_id(m.next_order_id),
               !.id_to_order_path_index =
                  Put(m.id_to_order_path_index, m.next_order_id, <<symbol, side, book_id>>),
               !.order_path_to_id_index =
                  Put(m.order_path_to_id_index, <<symbol, side, book_id>>, m.next_order_id)],
     "PlaceOrder", m.next_order_id)

\* lines 115-121 once the book has answered r
place_answered(m, symbol, side, r) ==
  IF r.panic
    THEN Abort(m)
    ELSE place_indexed([m EXCEPT !.books[symbol] = r.book], symbol, side, r.id)

\* faulty variant of place_order: the id is taken before the book is looked up
place_order_counted(m, side, symbol, order) ==
  IF symbol \notin DOMAIN m.books
    THEN Err([m EXCEPT !.next_order_id = m.next_order_id + 1], "SymbolDoesNotExist", symbol)
    ELSE place_answered(m, symbol, side, book_insert(m.books[symbol], side, order))

\* PlaceOrder(side, symbol, order), lines 113-122
place_order(m, side, symbol, order) ==
  IF symbol \notin DOMAIN m.books
    THEN Err(m, "SymbolDoesNotExist", symbol)
    ELSE place_answered(m, symbol, side, book_insert(m.books[symbol], side, order))

\* line 127 once the book has answered r
cancel_answered(m, symbol, r) ==
  Ok([m EXCEPT !.books[symbol] = r.book], "CancelOrder", r.ret)

\* lines 126-127 for the path (symbol, side, book_id)
cancel_path(m, symbol, side, book_id) ==
  IF symbol \notin DOMAIN m.books
    THEN Err(m, "SymbolDoesNotExist", symbol)
    ELSE cancel_answered(m, symbol, book_cancel(m.books[symbol], side, book_id))

\* CancelOrder(id), lines 124-128
cancel_order(m, id) ==
  IF id \notin DOMAIN m.id_to_order_path_index
    THEN Err(m, "IdDoesNotExist", id)
    ELSE cancel_path(m, m.id_to_order_path_index[id][1], m.id_to_order_path_index[id][2],
                     m.id_to_order_path_index[id][3])

\* GetQuote(symbol, side), lines 130-136
get_quote(m, symbol, side) ==
  IF symbol \in DOMAIN m.books
    THEN Ok(m, "GetQuote", book_best_price(m.books[symbol], side))
    ELSE Err(m, "SymbolDoesNotExist", symbol)

\* GetAccount(id), lines 138-144
get_account(m, id) ==
  IF id \in DOMAIN m.accounts
    THEN Ok(m, "GetAccount", m.accounts[id])
    ELSE Err(m, "AccountDoesNotExist", id)

\* the match on command.kind, lines 88-145
dispatch(m, kind) ==
  CASE kind.kind = "ExecuteOrder" -> execute_order(m, kind.id)
    [] kind.kind = "GetOrder" -> get_order(m, kind.id)
    [] kind.kind = "PlaceOrder" -> place_order(m, kind.side, kind.symbol, kind.order)
    [] kind.kind = "CancelOrder" -> cancel_order(m, kind.id)
    [] kind.kind = "GetQuote" -> get_quote(m, kind.symbol, kind.side)
    [] kind.kind = "GetAccount" -> get_account(m, kind.id)

\* faulty variant of try_process: the command is dispatched by kind first, and
\* the account is looked up only when that succeeded
try_process_kind_first(m, command) ==
  IF command.account_id \in DOMAIN m.accounts \/ dispatch(m, command.kind).tag = "Err"
    THEN dispatch(m, command.kind)
    ELSE Err(m, "AccountDoesNotExist", command.account_id)

\* MatchEngine::try_process, lines 83-149
try_process(m, command) ==
  IF command.account_id \in DOMAIN m.accounts
    THEN dispatch(m, command.kind)
    ELSE Err(m, "AccountDoesNotExist", command.account_id)

\* MatchEngine::validate_command_against_account of src/src/engine.rs: the
\* only arm of its match is unimplemented!(), so every call aborts
validate_command_against_account(account, kind) == "panic"

\* MatchEngine::try_process of src/src/engine.rs, lines 100-105 and the else
\* of the account lookup: the hook is called with `?` before the match on
\* command.kind, which is reached only if the hook returns Ok(())
core_try_process(m, command) ==
  IF command.account_id \in DOMAIN m.accounts
    THEN IF validate_command_against_account(m.accounts[command.account_id], command.kind) = "panic"
           THEN Abort(m)
           ELSE dispatch(m, command.kind)
    ELSE Err(m, "AccountDoesNotExist", command.account_id)

\* ------------------------------------------------ the MatchEngine machine
\* Symbol([char; 4]): the symbols commands name
Symbols == {"ADBE", "MSFT"}

\* the orders a PlaceOrder carries: Order::new(price, quantity), and the same
\* with is_cancelled set
Orders ==
  {[new(price, quantity) EXCEPT !.is_cancelled = c] :
     price \in Prices, quantity \in Quantities, c \in BOOLEAN}

\* the account ids a command may carry: every id created, and unregistered ones
AccountIds == 0..MaxAccounts

\* the engine ids a command may name: every id handed out, and the next one
EngineIds == 0..me.next_order_id

InsertNewSymbol(symbol) ==
  /\ ~meDown
  /\ me' = insert_new_symbol(me, symbol).m
  /\ UNCHANGED <<meDown, placements>>
  /\ UNCHANGED <<vars, svars, ovars>>

CreateAccount ==
  /\ ~meDown
  /\ me.next_account_id < MaxAccounts
  /\ me' = create_account(me).m
  /\ UNCHANGED <<meDown, placements>>
  /\ UNCHANGED <<vars, svars, ovars>>

\* the engine after try_process(command) answered r.  A call that aborts
\* before it changed anything leaves the engine as it was.  A call that aborts
\* with the engine changed, or that does not return, is the last call made on
\* the engine: meDown is set, with the engine as the abort left it.
Processed(command, r) ==
  /\ me' = IF r.tag = "hung" THEN me ELSE r.m
  /\ meDown' = (r.tag = "hung" \/ (r.tag = "panic" /\ r.m # me))
  /\ placements' = IF r.tag = "Ok" /\ r.kind = "PlaceOrder"
                     THEN Append(placements, [id |-> r.val, order |-> command.kind.order])
                     ELSE placements
  /\ UNCHANGED <<vars, svars, ovars>>

Process(command) ==
  /\ ~meDown
  /\ Processed(command, try_process(me, command))

Place(account_id, side, symbol, order) ==
  /\ me.next_order_id < MaxEngineOrders
  /\ Process(Command(account_id, PlaceOrder(side, symbol, order)))

MNext ==
  \/ \E symbol \in Symbols : InsertNewSymbol(symbol)
  \/ CreateAccount
  \/ \E a \in AccountIds, side \in Sides, symbol \in Symbols, order \in Orders :
       Place(a, side, symbol, order)
  \/ \E a \in AccountIds, id \in EngineIds : Process(Command(a, CancelOrder(id)))
  \/ \E a \in AccountIds, id \in EngineIds : Process(Command(a, GetOrder(id)))
  \/ \E a \in AccountIds, id \in EngineIds : Process(Command(a, ExecuteOrder(id)))
  \/ \E a \in AccountIds, symbol \in Symbols, side \in Sides :
       Process(Command(a, GetQuote(symbol, side)))
  \/ \E a \in AccountIds, id \in AccountIds : Process(Command(a, GetAccount(id)))

EngineSpec == Start /\ [][MNext]_<<vars, mvars, svars, ovars>>

\* ------------------------------------------------ the server of main.rs
\* main() builds one MatchEngine, wraps it in Arc<Mutex<..>> and spawns one
\* thread per connection; handle_connection runs, for every command of its
\* stream: engine.lock().unwrap(), lock.try_process(command), and the drop of
\* the guard at the end of the iteration.  The shared engine is me.  A call of
\* try_process is in progress between Begin and its end (Return, Panicked or
\* NeverReturns): it works on the engine it found at Begin (seen) and its
\* writes are in the shared engine at its end.

\* faulty variant of lock_free: lock() does not wait for the holder
lock_ignores_holder(m) == TRUE

\* Mutex::lock returns once no other thread holds the guard
lock_free(m) == m.holder = NoHolder

\* the engine main() shares: the symbol ADBE and one account
ServerEngine == create_account(insert_new_symbol(EmptyEngine, "ADBE").m).m

\* the orders the connections place: price 1 and quantity 1 or 2, and one with
\* is_cancelled set
ServerOrders == {new(1, 1), new(1, 2), [new(1, 1) EXCEPT !.is_cancelled = TRUE]}

\* the commands a connection may send when the engine is m, all of account 0
ServerCommands(m) ==
  {Command(0, kind) :
     kind \in {PlaceOrder(side, "ADBE", order) : side \in Sides, order \in ServerOrders}
                \cup {ExecuteOrder(id) : id \in 0..m.next_order_id}
                \cup {CancelOrder(id) : id \in 0..m.next_order_id}}

\* the state main() leaves when it starts to listen
ServerInit ==
  /\ me = ServerEngine
  /\ meDown = FALSE
  /\ placements = <<>>

\* the deserializer of the stream of connection c yields a command
Receive(c, command) ==
  /\ conn[c].pc = "idle"
  /\ Len(conn[c].sent) < MaxCommands
  /\ conn' = [conn EXCEPT ![c].pc = "received",
                          ![c].command = <<command>>,
                          ![c].sent = Append(@, command)]
  /\ UNCHANGED <<mutex, log>>
  /\ UNCHANGED <<vars, mvars, ovars>>

\* engine.lock().unwrap() returns the guard
Lock(c) ==
  /\ conn[c].pc = "received"
  /\ lock_free(mutex)
  /\ ~mutex.poisoned
  /\ mutex' = [mutex EXCEPT !.holder = c]
  /\ conn' = [conn EXCEPT ![c].pc = "locked"]
  /\ UNCHANGED log
  /\ UNCHANGED <<vars, mvars, ovars>>

\* engine.lock() returns Err(PoisonError) and unwrap() aborts the thread; the
\* guard inside the error is dropped with it
LockPoisoned(c) ==
  /\ conn[c].pc = "received"
  /\ lock_free(mutex)
  /\ mutex.poisoned
  /\ conn' = [conn EXCEPT ![c].pc = "dead"]
  /\ UNCHANGED <<mutex, log>>
  /\ UNCHANGED <<vars, mvars, ovars>>

\* lock.try_process(command) is entered
Begin(c) ==
  /\ conn[c].pc = "locked"
  /\ conn' = [conn EXCEPT ![c].pc = "running", ![c].seen = <<me>>]
  /\ UNCHANGED <<mutex, log>>
  /\ UNCHANGED <<vars, mvars, ovars>>

\* the entry of the log for the call of connection c that answered r
Logged(c, r) ==
  [conn |-> c, command |-> conn[c].command[1], tag |-> r.tag, kind |-> r.kind, val |-> r.val]

\* try_process of connection c returns r, a Success or an Error
Returned(c, r) ==
  /\ r.tag \in {"Ok", "Err"}
  /\ me' = r.m
  /\ log' = Append(log, Logged(c, r))
  /\ conn' = [conn EXCEPT ![c].pc = "returned"]
  /\ UNCHANGED <<mutex, meDown, placements>>
  /\ UNCHANGED <<vars, ovars>>

Return(c) ==
  /\ conn[c].pc = "running"
  /\ Returned(c, try_process(conn[c].seen[1], conn[c].command[1]))

\* try_process of connection c aborts: the thread unwinds, and the guard
\* dropped while panicking poisons the mutex and releases it
PanickedWith(c, r) ==
  /\ r.tag = "panic"
  /\ me' = r.m
  /\ log' = Append(log, Logged(c, r))
  /\ mutex' = [holder |-> NoHolder, poisoned |-> TRUE]
  /\ conn' = [conn EXCEPT ![c].pc = "dead"]
  /\ UNCHANGED <<meDown, placements>>
  /\ UNCHANGED <<vars, ovars>>

Panicked(c) ==
  /\ conn[c].pc = "running"
  /\ PanickedWith(c, try_process(conn[c].seen[1], conn[c].command[1]))

\* try_process of connection c does not return: the thread keeps the guard
NeverReturns(c) ==
  /\ conn[c].pc = "running"
  /\ try_process(conn[c].seen[1], conn[c].command[1]).tag = "hung"
  /\ conn' = [conn EXCEPT ![c].pc = "hung"]
  /\ UNCHANGED <<mutex, log>>
  /\ UNCHANGED <<vars, mvars, ovars>>

\* the end of the iteration: dbg!(&lock), and the guard is dropped
Unlock(c) ==
  /\ conn[c].pc = "returned"
  /\ mutex' = [mutex EXCEPT !.holder = NoHolder]
  /\ conn' = [conn EXCEPT ![c].pc = "idle", ![c].command = <<>>, ![c].seen = <<>>]
  /\ UNCHANGED log
  /\ UNCHANGED <<vars, mvars, ovars>>

ServerNext ==
  \/ \E c \in Connections : \E command \in ServerCommands(me) : Receive(c, command)
  \/ \E c \in Connections : Lock(c)
  \/ \E c \in Connections : LockPoisoned(c)
  \/ \E c \in Connections : Begin(c)
  \/ \E c \in Connections : Return(c)
  \/ \E c \in Connections : Panicked(c)
  \/ \E c \in Connections : NeverReturns(c)
  \/ \E c \in Connections : Unlock(c)

\* both books empty, the engine of main() behind a free mutex
ServerStart == Init /\ ServerInit /\ SInit /\ OInit

ServerSpec == ServerStart /\ [][ServerNext]_<<vars, mvars, svars, ovars>>

\* The server with its scheduling: a thread that can take its next step takes
\* it (the operating system runs every thread), and a thread waiting in
\* lock() gets the guard if the guard is free again and again.  The arrival
\* of a command is up to the client and has no fairness.
ThreadFairness(c) ==
  /\ SF_<<vars, mvars, svars, ovars>>(Lock(c))
  /\ WF_<<vars, mvars, svars, ovars>>(LockPoisoned(c))
  /\ WF_<<vars, mvars, svars, ovars>>(Begin(c))
  /\ WF_<<vars, mvars, svars, ovars>>(Return(c))
  /\ WF_<<vars, mvars, svars, ovars>>(Panicked(c))
  /\ WF_<<vars, mvars, svars, ovars>>(NeverReturns(c))
  /\ WF_<<vars, mvars, svars, ovars>>(Unlock(c))

ServerFairSpec ==
  /\ ServerStart
  /\ [][ServerNext]_<<vars, mvars, svars, ovars>>
  /\ \A c \in Connections : ThreadFairness(c)

\* -------------------------------------------- the orders under Order::fill
\* The prices and quantities an order of src/src/order.rs is built from; its
\* fields are public, so filled may be any quantity, above quantity too.
FillPrices == Prices \cup {TestPrice}

FillQuantities == (0..MaxQty) \cup {TestFilled, TestQuantity}

FillOrders == [price : FillPrices, quantity : FillQuantities, filled : FillQuantities]

\* any two orders, fill not called yet
OrderInit ==
  /\ askOrder \in FillOrders
  /\ bidOrder \in FillOrders
  /\ fillCall = <<>>

\* Order::fill(&askOrder, &bidOrder) is called
Fill ==
  /\ fillCall' = [ask |-> askOrder, bid |-> bidOrder, quantity |-> fill(askOrder, bidOrder)]
  /\ UNCHANGED <<askOrder, bidOrder>>
  /\ UNCHANGED <<vars, mvars, svars>>

\* Order::fill(&bidOrder, &askOrder) is called, as the unit test calls it
FillSwapped ==
  /\ fillCall' = [ask |-> bidOrder, bid |-> askOrder, quantity |-> fill(bidOrder, askOrder)]
  /\ UNCHANGED <<askOrder, bidOrder>>
  /\ UNCHANGED <<vars, mvars, svars>>

OrderNext ==
  \/ Fill
  \/ FillSwapped

OrderStart == Init /\ MInit /\ SInit /\ OrderInit

OrderSpec == OrderStart /\ [][OrderNext]_<<vars, mvars, svars, ovars>>

\* =================================================================== claims
\* Vocabulary of the properties.  A ladder is L, a book is engine or core.

\* the ids handed out by a ladder
IdsOf(L) == 0..(Len(L.orders) - 1)

\* the ids a side of a book has handed out
BookIds(book, side) == IdsOf(Ladder(book, side))

\* the order record of an id
OrderOf(L, id) == L.orders[id + 1]

\* the FIFO of the level of a price, <<>> when the map has no such key
LevelOf(book, side, price) == level(KeyType(side), Ladder(book, side), price)

\* the id is queued in some FIFO of the ladder
Queued(L, id) ==
  \E i \in 1..Len(L.limit_levels) : IndexOf(L.limit_levels[i].fifo, id) # 0

\* an order that is neither cancelled nor fully filled
Live(o) == ~o.is_cancelled /\ ~is_filled(o)

\* the engine call execute(side, id) returns: it neither aborts nor loops
Returns(r) == ~r.panic /\ ~r.hung

\* the incoming order of execute(side, id), before the call
Incoming(book, side, id) == OrderOf(Ladder(book, side), id)

\* the level execute(side, id) matches against, before the call
Against(book, side, id) ==
  LevelOf(book, Opposite(side), Incoming(book, side, id).price)

\* the same level of the book the call leaves
AgainstAfter(book, after, side, id) ==
  LevelOf(after, Opposite(side), Incoming(book, side, id).price)

\* ------------------------------------------------------------------- C1
\* every FIFO of the ladder holds its ids in strictly ascending order
FifoAscending(L) ==
  \A i \in 1..Len(L.limit_levels) :
    \A a, b \in 1..Len(L.limit_levels[i].fifo) :
      a < b => L.limit_levels[i].fifo[a] < L.limit_levels[i].fifo[b]

\* between the ladder before and after a match: an order B whose filled grew
\* has every earlier order A of its price that was not cancelled fully filled
FilledInOrder(before, after) ==
  \A B \in IdsOf(before) :
    OrderOf(after, B).filled > OrderOf(before, B).filled =>
      \A A \in 0..(B - 1) :
        (OrderOf(before, A).price = OrderOf(before, B).price /\ ~OrderOf(before, A).is_cancelled)
          => is_filled(OrderOf(after, A))

EngineInOrder(side, r) ==
  Returns(r) => FilledInOrder(Ladder(engine, Opposite(side)), Ladder(r.book, Opposite(side)))

CoreInOrder(side, r) ==
  FilledInOrder(Ladder(core, Opposite(side)), Ladder(r.book, Opposite(side)))

\* time priority on the ladders of the engine crate
EngineTimePriority ==
  \A side \in Sides :
    /\ FifoAscending(Ladder(engine, side))
    /\ \A id \in BookIds(engine, side) : EngineInOrder(side, book_execute(engine, side, id))

\* time priority on the ladders of the core crate
CoreTimePriority ==
  \A side \in Sides :
    /\ FifoAscending(Ladder(core, side))
    /\ \A id \in BookIds(core, side) : CoreInOrder(side, core_book_execute(core, side, id))

\* C1: in every reachable state each FIFO is in strictly ascending id order,
\* and whatever order is executed, a resting order B is filled only if every
\* earlier order A of its side and price that is not cancelled is fully
\* filled by then.
C1_TimePriority == EngineTimePriority /\ CoreTimePriority

\* ------------------------------------------------------------------- C2
\* the fills (id, quantity) a greedy match of a taker with remaining R gives
\* on a FIFO: min(r_i, what is left of R), up to the order that exhausts R
RECURSIVE Greedy(_, _, _)
Greedy(L, fifo, R) ==
  IF fifo = <<>> \/ R = 0
    THEN <<>>
    ELSE <<<<Head(fifo), to_fill(OrderOf(L, Head(fifo)), [quantity |-> R, filled |-> 0])>>>>
           \o Greedy(L, Tail(fifo),
                     R - to_fill(OrderOf(L, Head(fifo)), [quantity |-> R, filled |-> 0]))

\* the (id, quantity) part of a list of executions
IdQty(executions) == [k \in 1..Len(executions) |-> <<executions[k][1], executions[k][2]>>]

\* the ids of a FIFO whose order has remaining > 0 in ladder L, in FIFO order
StillOpen(L, fifo) ==
  LET open(id) == remaining(OrderOf(L, id)) > 0
  IN  SelectSeq(fifo, open)

\* the case C2 speaks of: the taker has remaining > 0 and meets a level whose
\* resting orders all have remaining > 0
GreedyCase(book, side, id) ==
  /\ remaining(Incoming(book, side, id)) > 0
  /\ Against(book, side, id) # <<>>
  /\ \A k \in 1..Len(Against(book, side, id)) :
       remaining(OrderOf(Ladder(book, Opposite(side)), Against(book, side, id)[k])) > 0

\* what C2 says of the fills and of the level the call leaves
GreedyResult(book, side, id, executions, after) ==
  /\ IdQty(executions) = Greedy(Ladder(book, Opposite(side)), Against(book, side, id),
                                remaining(Incoming(book, side, id)))
  /\ AgainstAfter(book, after, side, id)
       = StillOpen(Ladder(after, Opposite(side)), Against(book, side, id))

EngineGreedy(side, id, r) ==
  GreedyCase(engine, side, id) =>
    /\ Returns(r)
    /\ GreedyResult(engine, side, id, r.executions, r.book)

CoreGreedy(side, id, r) ==
  GreedyCase(core, side, id) => GreedyResult(core, side, id, r.executions, r.book)

\* greedy fill on the engine crate's ladders
EngineGreedyFill ==
  \A side \in Sides : \A id \in BookIds(engine, side) :
    EngineGreedy(side, id, book_execute(engine, side, id))

\* greedy fill on the core crate's ladders
CoreGreedyFill ==
  \A side \in Sides : \A id \in BookIds(core, side) :
    CoreGreedy(side, id, core_book_execute(core, side, id))

\* C2: executing a taker with remaining R > 0 against a level of resting
\* orders with remaining r1..rn returns exactly the greedy fills
\* (id_i, min(r_i, R - (r1 + .. + r_(i-1)))) of the shortest prefix that covers
\* R, and leaves in the level exactly the orders that still have remaining > 0.
C2_GreedyFill == EngineGreedyFill /\ CoreGreedyFill

\* ------------------------------------------------------------------- C3
\* what C3 says of one resting order an execute filled: partially filled, it
\* is the head of its level; completely filled, it is in no FIFO
HeadOrGone(after, side, id) ==
  IF is_filled(OrderOf(Ladder(after, side), id))
    THEN ~Queued(Ladder(after, side), id)
    ELSE /\ LevelOf(after, side, OrderOf(Ladder(after, side), id).price) # <<>>
         /\ Head(LevelOf(after, side, OrderOf(Ladder(after, side), id).price)) = id

FilledStayOrLeave(side, executions, after) ==
  \A k \in 1..Len(executions) : HeadOrGone(after, Opposite(side), executions[k][1])

EngineStayOrLeave(side, r) == Returns(r) => FilledStayOrLeave(side, r.executions, r.book)

\* C3 on the engine crate's ladders
EngineHeadKeepsPriority ==
  \A side \in Sides : \A id \in BookIds(engine, side) :
    EngineStayOrLeave(side, book_execute(engine, side, id))

CoreStayOrLeave(side, r) == FilledStayOrLeave(side, r.executions, r.book)

\* C3 on the core crate's ladders
CoreHeadKeepsPriority ==
  \A side \in Sides : \A id \in BookIds(core, side) :
    CoreStayOrLeave(side, core_book_execute(core, side, id))

\* C3: a resting order that an execute fills only partially stays at the head
\* of its level's FIFO, and one that an execute fills completely is removed
\* from the FIFO.
C3_HeadKeepsPriority == EngineHeadKeepsPriority /\ CoreHeadKeepsPriority

\* ------------------------------------------------------------------- C4
\* what C4 says of a call that ended: at most one fill per resting order of
\* the level, and the incoming order is filled or the level is exhausted
EndedWell(book, side, id, executions, after) ==
  /\ Len(executions) <= Len(Against(book, side, id))
  /\ \/ is_filled(Incoming(after, side, id))
     \/ AgainstAfter(book, after, side, id) = <<>>

EngineEnds(side, id, r) ==
  remaining(Incoming(engine, side, id)) > 0 =>
    /\ ~r.hung
    /\ EndedWell(engine, side, id, r.executions, r.book)

CoreEnds(side, id, r) ==
  remaining(Incoming(core, side, id)) > 0 => EndedWell(core, side, id, r.executions, r.book)

\* C4 on the engine crate's ladders
EngineTerminates ==
  \A side \in Sides : \A id \in BookIds(engine, side) :
    EngineEnds(side, id, book_execute(engine, side, id))

\* C4 on the core crate's ladders
CoreTerminates ==
  \A side \in Sides : \A id \in BookIds(core, side) :
    CoreEnds(side, id, core_book_execute(core, side, id))

\* C4: every execute call of an order with remaining > 0 terminates, after at
\* most one fill per resting order of the level, with the incoming order fully
\* filled or the level exhausted.
C4_ExecuteTerminates == EngineTerminates /\ CoreTerminates

\* ------------------------------------------------------------------- C5
\* every order record of the book has filled <= quantity
NoOverfill(book) ==
  \A side \in Sides : \A id \in BookIds(book, side) :
    OrderOf(Ladder(book, side), id).filled <= OrderOf(Ladder(book, side), id).quantity

\* C5: orders being placed with filled = 0 and quantity > 0, every order
\* record has filled <= quantity in every reachable state.
C5_NoOverfill == NoOverfill(engine) /\ NoOverfill(core)

\* some order of the book was filled up to its quantity by a match
FilledUp(book) ==
  \E side \in Sides : \E id \in BookIds(book, side) :
    /\ OrderOf(Ladder(book, side), id).filled = OrderOf(Ladder(book, side), id).quantity
    /\ OrderOf(Ladder(book, side), id).filled > 0

\* witness of C5: on both books an execute filled an order up to its quantity
\* and another order only in part
C5_Witness ==
  /\ FilledUp(engine) /\ FilledUp(core)
  /\ \E side \in Sides : \E id \in BookIds(core, side) :
       /\ OrderOf(Ladder(core, side), id).filled > 0
       /\ OrderOf(Ladder(core, side), id).filled < OrderOf(Ladder(core, side), id).quantity

\* ------------------------------------------------------------------- C6
RECURSIVE SumFilledOrders(_)
SumFilledOrders(orders) ==
  IF orders = <<>> THEN 0 ELSE Head(orders).filled + SumFilledOrders(Tail(orders))

\* the sum of filled over all order records of a book
SumFilled(book) == SumFilledOrders(book.bids.orders) + SumFilledOrders(book.asks.orders)

\* C6: in every reachable state the sum of filled over all order records of a
\* book is twice the sum of the fill quantities execute has returned so far.
C6_FillConservation ==
  /\ SumFilled(engine) = 2 * volume.engine
  /\ SumFilled(core) = 2 * volume.core

\* witness of C6: both books have returned fills, the core book from more
\* than one execute
C6_Witness == volume.engine > 0 /\ volume.core > 2

\* ------------------------------------------------------------------- C7
\* a live order: queued in the FIFO of its price, not cancelled, not filled
LiveResting(book, side, id) ==
  /\ Live(OrderOf(Ladder(book, side), id))
  /\ IndexOf(LevelOf(book, side, OrderOf(Ladder(book, side), id).price), id) # 0

\* the first cancel of a live order returns true and sets cancelled
FirstCancel(book, side, id, r) ==
  LiveResting(book, side, id) =>
    r.ret /\ OrderOf(Ladder(r.book, side), id).is_cancelled

\* a cancel of a cancelled order returns false and changes nothing
LaterCancel(book, side, id, r) ==
  OrderOf(Ladder(book, side), id).is_cancelled => (~r.ret /\ r.book = book)

\* cancel on the engine crate's book, in one state
EngineCancelOnce ==
  \A side \in Sides : \A id \in BookIds(engine, side) :
    /\ FirstCancel(engine, side, id, book_cancel(engine, side, id))
    /\ LaterCancel(engine, side, id, book_cancel(engine, side, id))

\* cancel on the core crate's book, in one state
CoreCancelOnce ==
  \A side \in Sides : \A id \in BookIds(core, side) :
    /\ FirstCancel(core, side, id, core_cancel(core, side, id))
    /\ LaterCancel(core, side, id, core_cancel(core, side, id))

\* every order a cancel of the book returned true for is still cancelled
StaysCancelled(book, done) ==
  \A c \in done : OrderOf(Ladder(book, c[1]), c[2]).is_cancelled

HasLevel(book, side, p) == Find(Ladder(book, side).limit_levels, From(KeyType(side), p)) # 0

\* some order of the side at the price is neither cancelled nor fully filled
HasLive(book, side, p) ==
  \E id \in BookIds(book, side) :
    OrderOf(Ladder(book, side), id).price = p /\ Live(OrderOf(Ladder(book, side), id))

LevelPresence(book) ==
  \A side \in Sides : \A p \in Prices : HasLevel(book, side, p) <=> HasLive(book, side, p)

\* C8: after every step a price key exists in a side's level map iff an order
\* that is neither cancelled nor fully filled rests at that price on that side.
C8_LevelPresence == LevelPresence(engine) /\ LevelPresence(core)

\* ------------------------------------------------------------------- C9
\* the prices of the keys of a ladder's map
KeyPrices(P, L) == {Into(P, L.limit_levels[i].key) : i \in 1..Len(L.limit_levels)}

\* the prices of the orders of a ladder
OrderPrices(L) == {L.orders[i].price : i \in 1..Len(L.orders)}

\* no order of the ladder was cancelled or filled: the ladder saw inserts only
Untouched(L) == \A i \in 1..Len(L.orders) : ~L.orders[i].is_cancelled /\ L.orders[i].filled = 0

IsMin(p, S) == p \in S /\ \A q \in S : p <= q

IsMax(p, S) == p \in S /\ \A q \in S : p >= q

\* price priority on one book, the best price being read with best_price
BestIsBest(book) ==
  /\ book.asks.limit_levels # <<>> =>
       IsMin(best_price(PPrice, book.asks), KeyPrices(PPrice, book.asks))
  /\ book.bids.limit_levels # <<>> =>
       IsMax(best_price(PReverse, book.bids), KeyPrices(PReverse, book.bids))
  /\ (book.asks.orders # <<>> /\ Untouched(book.asks)) =>
       IsMin(best_price(PPrice, book.asks), OrderPrices(book.asks))

\* the same with the core crate's price(), which is None on an empty ladder
CoreBestIsBest ==
  /\ core.asks.limit_levels # <<>> => ladder_price(PPrice, core.asks) = <<best_price(PPrice, core.asks)>>
  /\ core.bids.limit_levels # <<>> => ladder_price(PReverse, core.bids) = <<best_price(PReverse, core.bids)>>

\* C9: in every reachable state the best price of the ask ladder is the
\* minimum of its level keys and the best price of the bid ladder the maximum
\* of its level keys; after inserts only, the best ask is the lowest inserted
\* ask price.
C9_PricePriority == BestIsBest(engine) /\ BestIsBest(core) /\ CoreBestIsBest

\* witness of C9: both ladders of both books hold two levels, the higher
\* price having been inserted first on the ask side and last on the bid side
C9_Witness ==
  /\ Len(engine.asks.limit_levels) = 2 /\ Len(engine.bids.limit_levels) = 2
  /\ Len(core.asks.limit_levels) = 2 /\ Len(core.bids.limit_levels) = 2
  /\ core.asks.orders[1].price > core.asks.orders[2].price
  /\ core.bids.orders[1].price < core.bids.orders[2].price

\* ------------------------------------------------------------------ C10
\* both sides of the book hold a level and the best bid is below the best ask
Uncrossed(book) ==
  (book.bids.limit_levels # <<>> /\ book.asks.limit_levels # <<>>) =>
    book_best_price(book, Bid) < book_best_price(book, Ask)

\* C10: after every completed command, whenever both sides are non-empty,
\* best_bid < best_ask.
C10_UncrossedAtRest == Uncrossed(engine) /\ Uncrossed(core)

\* what a completed cancel(side, id) or execute(side, id) leaves of an
\* uncrossed book is uncrossed
EngineStaysUncrossed(side, id) ==
  /\ Uncrossed(book_cancel(engine, side, id).book)
  /\ Returns(book_execute(engine, side, id)) => Uncrossed(book_execute(engine, side, id).book)

CoreStaysUncrossed(side, id) ==
  /\ Uncrossed(core_cancel(core, side, id).book)
  /\ Uncrossed(core_book_execute(core, side, id).book)

\* C10, amended: place inserts without matching, so a book can rest crossed;
\* cancel and execute never cross a book: when best_bid < best_ask (or a side
\* is empty) before a completed cancel or execute, the same holds after it.
C10_CrossedOnlyByPlace ==
  /\ Uncrossed(engine) =>
       \A side \in Sides : \A id \in 0..Len(Ladder(engine, side).orders) :
         EngineStaysUncrossed(side, id)
  /\ Uncrossed(core) =>
       \A side \in Sides : \A id \in 0..Len(Ladder(core, side).orders) :
         CoreStaysUncrossed(side, id)

\* witness of C10: an uncrossed book with both sides non-empty in which an
\* execute would fill a resting order and a cancel would remove a level
C10_Witness ==
  /\ Uncrossed(core) /\ core.bids.limit_levels # <<>> /\ core.asks.limit_levels # <<>>
  /\ Uncrossed(engine) /\ engine.bids.limit_levels # <<>> /\ engine.asks.limit_levels # <<>>
  /\ \E side \in Sides : \E id \in BookIds(core, side) :
       /\ core_book_execute(core, side, id).executions # <<>>
       /\ Returns(book_execute(engine, side, id))
       /\ book_execute(engine, side, id).executions # <<>>
  /\ \E id \in BookIds(core, Ask) :
       /\ core_cancel(core, Ask, id).ret
       /\ core_cancel(core, Ask, id).book.asks.limit_levels = <<>>

\* =========================================== claims on the MatchEngine
\* the accounts registered with the engine
Registered == DOMAIN me.accounts

\* the engine ids the forward index holds
Indexed(m) == DOMAIN m.id_to_order_path_index

\* ------------------------------------------------------------------ C11
\* the reverse index at the path of every engine id is that engine id, and no
\* two engine ids have the same path
IndexBijection(m) ==
  /\ \A e \in Indexed(m) :
       /\ m.id_to_order_path_index[e] \in DOMAIN m.order_path_to_id_index
       /\ m.order_path_to_id_index[m.id_to_order_path_index[e]] = e
  /\ \A e1, e2 \in Indexed(m) :
       m.id_to_order_path_index[e1] = m.id_to_order_path_index[e2] => e1 = e2

\* C11: after any sequence of create_account, insert_new_symbol and
\* try_process calls, every engine id e of the forward index has
\* reverse[forward[e]] = e, and no two engine ids share a path.
C11_IndexBijection == IndexBijection(me)

\* ------------------------------------------------------------------ C12
\* what C12 says of insert_new_symbol(symbol) answering r in engine m
SymbolInserted(m, symbol, r) ==
  IF symbol \in DOMAIN m.books
    THEN ~r.ret /\ r.m.books[symbol] = m.books[symbol]
    ELSE r.ret /\ r.m.books[symbol] = EmptyBook

\* C12: in every reachable state, insert_new_symbol of a symbol that has a
\* book returns false and leaves that book as it is, and of a new symbol
\* returns true and creates an empty book.
C12_SymbolInsertedOnce ==
  \A symbol \in Symbols : SymbolInserted(me, symbol, insert_new_symbol(me, symbol))

\* ------------------------------------------------------------------ C13
\* GetOrder(id) of a registered account answers r: the order, at the price p
Resolves(r, p) == r.tag = "Ok" /\ r.kind = "GetOrder" /\ r.val.price = p

\* C13: in every reachable state in which the engine can be called, GetOrder
\* of every id a PlaceOrder has returned, issued by a registered account,
\* returns Success::GetOrder with the price the order was placed with.
C13_OrdersPersist ==
  ~meDown =>
    \A k \in 1..Len(placements) : \A a \in Registered :
      Resolves(try_process(me, Command(a, GetOrder(placements[k].id))),
               placements[k].order.price)

\* ------------------------------------------------------------------ C14
\* the fills OrderBook::execute gives for the order of engine id e
BookFills(m, e) ==
  book_execute(m.books[m.id_to_order_path_index[e][1]], m.id_to_order_path_index[e][2],
               m.id_to_order_path_index[e][3])

\* the pair try_process returned for a fill names the resting order of the
\* fill: the engine id whose path is (symbol of e, side opposite to e, book id
\* of the fill), with the quantity of the fill
NamesMaker(m, e, pair, made) ==
  /\ pair[1] \in Indexed(m)
  /\ m.id_to_order_path_index[pair[1]]
       = <<m.id_to_order_path_index[e][1], Opposite(m.id_to_order_path_index[e][2]), made[1]>>
  /\ pair[2] = made[2]

\* what C14 says of ExecuteOrder(e) answering r when the book gives fills
MakersReturned(m, e, r, fills) ==
  /\ r.tag = "Ok" /\ r.kind = "ExecuteOrder"
  /\ Len(r.val) = Len(fills)
  /\ \A k \in 1..Len(fills) : NamesMaker(m, e, r.val[k], fills[k])

\* C14: in every reachable state, an ExecuteOrder(e) whose match returns
\* gives, for each fill, the engine id of the resting order that was filled
\* (the id whose path is the symbol of e, the side opposite to e's and the
\* filled book id) paired with the filled quantity.
C14_ExecuteReturnsMakers ==
  ~meDown =>
    \A a \in Registered : \A e \in Indexed(me) :
      (me.id_to_order_path_index[e][1] \in DOMAIN me.books /\ Returns(BookFills(me, e))) =>
        MakersReturned(me, e, try_process(me, Command(a, ExecuteOrder(e))),
                       BookFills(me, e).executions)

\* ------------------------------------------------------------------ C15
\* the kinds of command an engine in state m may be sent
CommandKinds(m) ==
  {CancelOrder(id) : id \in 0..m.next_order_id}
    \cup {GetOrder(id) : id \in 0..m.next_order_id}
    \cup {ExecuteOrder(id) : id \in 0..m.next_order_id}
    \cup {PlaceOrder(side, symbol, order) : side \in Sides, symbol \in Symbols, order \in Orders}
    \cup {GetQuote(symbol, side) : symbol \in Symbols, side \in Sides}
    \cup {GetAccount(id) : id \in AccountIds}

\* the commands: every kind, from every account id
Commands(m) == {Command(a, kind) : a \in AccountIds, kind \in CommandKinds(m)}

\* the ids returned so far are 0, 1, 2, .. in the order of the placements
Sequential == \A k \in 1..Len(placements) : placements[k].id = k - 1

\* a successful PlaceOrder returns the next id, above every id returned so
\* far, and every other call leaves the counter alone
CountsPlacements(m, r) ==
  IF r.tag = "Ok" /\ r.kind = "PlaceOrder"
    THEN /\ r.val = Len(placements)
         /\ \A k \in 1..Len(placements) : placements[k].id < r.val
         /\ r.m.next_order_id = r.val + 1
    ELSE r.tag # "hung" => r.m.next_order_id = m.next_order_id

\* C15: the ids successful PlaceOrder commands return are 0, 1, 2, .. in
\* steps of 1, strictly increasing and never returned twice; a command that
\* fails or is of another kind does not consume an id.
C15_IdMonotonic ==
  /\ Sequential
  /\ ~meDown => \A c \in Commands(me) : CountsPlacements(me, try_process(me, c))

\* witness of C15: every id the bound allows was returned, with an unknown
\* symbol and an unregistered account left for commands that fail
C15_Witness ==
  /\ ~meDown /\ Len(placements) = MaxEngineOrders
  /\ Registered # {} /\ AccountIds \ Registered # {}
  /\ Symbols \ DOMAIN me.books # {}

\* ------------------------------------------------------------------ C16
\* GetOrder of the id a PlaceOrder returned gives the order as placed
ReadsBack(r, order) ==
  /\ r.tag = "Ok" /\ r.kind = "GetOrder"
  /\ r.val.price = order.price /\ r.val.quantity = order.quantity
  /\ r.val.filled = 0 /\ r.val.is_cancelled = FALSE

\* PlaceOrder answering r, immediately followed by GetOrder of the id
RoundTrip(a, symbol, order, r) ==
  /\ symbol \in DOMAIN me.books => r.tag = "Ok"
  /\ r.tag = "Ok" => ReadsBack(try_process(r.m, Command(a, GetOrder(r.val))), order)

\* C16: in every reachable state, PlaceOrder of an order with filled = 0 and
\* cancelled = false immediately followed by GetOrder of the returned id
\* yields the same price and quantity, filled = 0 and cancelled = false.
C16_PlaceGetRoundTrip ==
  ~meDown =>
    \A a \in Registered, side \in Sides, symbol \in Symbols, order \in Orders :
      ~order.is_cancelled =>
        RoundTrip(a, symbol, order, try_process(me, Command(a, PlaceOrder(side, symbol, order))))

\* witness of C16: the engine holds orders on both sides of a book, of which
\* one is filled and one cancelled, and a symbol has no book
C16_Witness ==
  /\ ~meDown /\ Registered # {}
  /\ Symbols \ DOMAIN me.books # {}
  /\ \E symbol \in DOMAIN me.books :
       /\ \E i \in 1..Len(me.books[symbol].bids.orders) :
            me.books[symbol].bids.orders[i].filled > 0
       /\ \E i \in 1..Len(me.books[symbol].asks.orders) :
            me.books[symbol].asks.orders[i].is_cancelled

\* ------------------------------------------------------------------ C17
\* a call that answered r with an Error left the engine m as it was
ErrorKeeps(m, r) == r.tag = "Err" => r.m = m

\* C17: in every reachable state, a try_process call that returns an Error
\* leaves the whole engine (books, both indices, accounts, next order id,
\* next account id) as it was.
C17_ErrorsNeverMutate ==
  ~meDown => \A c \in Commands(me) : ErrorKeeps(me, try_process(me, c))

\* witness of C17: a state in which each of the three errors is returned
C17_Witness ==
  /\ ~meDown /\ me.next_order_id > 0
  /\ \E c \in Commands(me) : try_process(me, c).kind = "AccountDoesNotExist"
  /\ \E c \in Commands(me) : try_process(me, c).kind = "SymbolDoesNotExist"
  /\ \E c \in Commands(me) : try_process(me, c).kind = "IdDoesNotExist"

\* ------------------------------------------------------------------ C18
\* the error r carries
IsErr(r, kind, val) == r.tag = "Err" /\ r.kind = kind /\ r.val = val

\* the command names an order id
NamesId(kind) == kind.kind \in {"CancelOrder", "GetOrder", "ExecuteOrder"}

\* the command names a symbol
NamesSymbol(kind) == kind.kind \in {"PlaceOrder", "GetQuote"}

\* what C18 says of the command c answered r
ErrorSelected(m, c, r) ==
  /\ c.account_id \notin DOMAIN m.accounts => IsErr(r, "AccountDoesNotExist", c.account_id)
  /\ (c.account_id \in DOMAIN m.accounts /\ NamesId(c.kind) /\ c.kind.id \notin Indexed(m))
       => IsErr(r, "IdDoesNotExist", c.kind.id)
  /\ (c.account_id \in DOMAIN m.accounts /\ NamesSymbol(c.kind)
        /\ c.kind.symbol \notin DOMAIN m.books)
       => IsErr(r, "SymbolDoesNotExist", c.kind.symbol)

\* C18: in every reachable state, a command of an unregistered account fails
\* with AccountDoesNotExist carrying that account id whatever its kind, also
\* when its symbol or order id is unknown; under a registered account an
\* unknown order id gives IdDoesNotExist with that id and an unknown symbol
\* SymbolDoesNotExist with that symbol.
C18_ErrorSelection ==
  ~meDown => \A c \in Commands(me) : ErrorSelected(me, c, try_process(me, c))

\* witness of C18: a command of an unregistered account names an unknown id
\* and another an unknown symbol, while the engine holds an order
C18_Witness ==
  /\ ~meDown /\ me.next_order_id > 0 /\ Registered # {}
  /\ \E c \in Commands(me) :
       /\ c.account_id \notin Registered /\ NamesId(c.kind) /\ c.kind.id \notin Indexed(me)
  /\ \E c \in Commands(me) :
       /\ c.account_id \notin Registered /\ NamesSymbol(c.kind)
       /\ c.kind.symbol \notin DOMAIN me.books

\* ================================ claims on the books, continued (Spec)
\* the ids named by a list of fills
FillIds(executions) == {executions[k][1] : k \in 1..Len(executions)}

\* ------------------------------------------------------------------ C19
\* what C19 says of execute(taker, id) for the cancelled order (side, c) of
\* the book: its filled is as before, and no fill involves it, neither as a
\* resting order nor as the order executed
CancelledLeftOut(book, after, executions, taker, id, side, c) ==
  /\ OrderOf(Ladder(after, side), c).filled = OrderOf(Ladder(book, side), c).filled
  /\ side = Opposite(taker) => c \notin FillIds(executions)
  /\ (side = taker /\ c = id) => executions = <<>>

NoCancelledMatched(book, after, executions, taker, id) ==
  \A side \in Sides : \A c \in BookIds(book, side) :
    OrderOf(Ladder(book, side), c).is_cancelled =>
      CancelledLeftOut(book, after, executions, taker, id, side, c)

EngineLeavesCancelled(taker, id, r) ==
  Returns(r) => NoCancelledMatched(engine, r.book, r.executions, taker, id)

CoreLeavesCancelled(taker, id, r) == NoCancelledMatched(core, r.book, r.executions, taker, id)

\* C19: in every reachable state, whatever order is executed, an order that
\* is cancelled keeps its filled quantity and is part of no fill, whether it
\* is a resting order or the order executed.
C19_NoCancelledMatched ==
  /\ \A taker \in Sides : \A id \in BookIds(engine, taker) :
       EngineLeavesCancelled(taker, id, book_execute(engine, taker, id))
  /\ \A taker \in Sides : \A id \in BookIds(core, taker) :
       CoreLeavesCancelled(taker, id, core_book_execute(core, taker, id))

\* ------------------------------------------------------------------ C20
\* every fill has a quantity above 0 and names a resting order that had
\* remaining above 0 before the call
FillsOpenOnly(book, taker, executions) ==
  \A k \in 1..Len(executions) :
    /\ executions[k][2] > 0
    /\ remaining(OrderOf(Ladder(book, Opposite(taker)), executions[k][1])) > 0

\* on the engine ladder a call that does not return reports nothing
EngineFillsOpenOnly(taker, r) == Returns(r) => FillsOpenOnly(engine, taker, r.executions)

\* C20 on the engine crate's ladders
EngineNoFilledMatched ==
  \A taker \in Sides : \A id \in BookIds(engine, taker) :
    EngineFillsOpenOnly(taker, book_execute(engine, taker, id))

\* C20 on the core crate's ladders
CoreNoFilledMatched ==
  \A taker \in Sides : \A id \in BookIds(core, taker) :
    FillsOpenOnly(core, taker, core_book_execute(core, taker, id).executions)

\* C20: in every reachable state, whatever order is executed, no fill names a
\* resting order that was fully filled before the call (also one that became
\* fully filled as an executed order), and every fill has quantity > 0.
C20_NoFilledMatched == EngineNoFilledMatched /\ CoreNoFilledMatched

\* ------------------------------------------------------------------ C21
\* a FIFO without the id, the other ids in their order
Without(fifo, id) ==
  LET other(x) == x # id
  IN  SelectSeq(fifo, other)

\* the entries of a ladder's map at every price but p
OtherLevels(book, side, p) == Remove(Ladder(book, side).limit_levels, From(KeyType(side), p))

\* every order record of the side but that of id is as before, and no record
\* was added or dropped
OtherRecordsKept(book, after, side, id) ==
  /\ Len(Ladder(after, side).orders) = Len(Ladder(book, side).orders)
  /\ \A other \in BookIds(book, side) \ {id} :
       OrderOf(Ladder(after, side), other) = OrderOf(Ladder(book, side), other)

\* what C21 says of a cancel(side, id) that returned true, the order being at
\* price p before the call; got is what get(side, id) gives after it
CancelFrame(book, after, side, id, p, got) ==
  /\ LevelOf(after, side, p) = Without(LevelOf(book, side, p), id)
  /\ Len(LevelOf(after, side, p)) = Len(LevelOf(book, side, p)) - 1
  /\ HasLevel(after, side, p) <=> (LevelOf(after, side, p) # <<>>)
  /\ OtherLevels(book, side, p) = OtherLevels(after, side, p)
  /\ got = <<[OrderOf(Ladder(book, side), id) EXCEPT !.is_cancelled = TRUE]>>
  /\ OtherRecordsKept(book, after, side, id)
  /\ Ladder(after, Opposite(side)) = Ladder(book, Opposite(side))

CancelFramed(book, side, id, r) ==
  r.ret => CancelFrame(book, r.book, side, id, OrderOf(Ladder(book, side), id).price,
                       book_get(r.book, side, id))

\* C21: in every reachable state a cancel that returns true removes exactly
\* the id from the FIFO of its price, keeps the other ids of the level in
\* their order, removes the level when it is left empty, and keeps the order
\* record: get returns it cancelled, with its price, quantity and filled
\* unchanged; no other level and no other order record changes.
C21_CancelFrame ==
  /\ \A side \in Sides : \A id \in BookIds(engine, side) :
       CancelFramed(engine, side, id, book_cancel(engine, side, id))
  /\ \A side \in Sides : \A id \in BookIds(core, side) :
       CancelFramed(core, side, id, core_cancel(core, side, id))

\* a cancel returned true for the order c of the side, which was queued
\* between two orders of its price that are still queued, in their order
CancelledBetween(book, side, c) ==
  \E i \in 1..(Len(LevelOf(book, side, OrderOf(Ladder(book, side), c).price)) - 1) :
    /\ LevelOf(book, side, OrderOf(Ladder(book, side), c).price)[i] < c
    /\ LevelOf(book, side, OrderOf(Ladder(book, side), c).price)[i + 1] > c

\* witness of C21: on both books the middle order of a level was cancelled
C21_Witness ==
  \E c \in cancelled.core \cap cancelled.engine :
    CancelledBetween(core, c[1], c[2]) /\ CancelledBetween(engine, c[1], c[2])

\* ------------------------------------------------------------------ C22
\* the opposite ladder has no level at the price of the order (side, id)
NoLevelAtPrice(book, side, id) == ~HasLevel(book, Opposite(side), Incoming(book, side, id).price)

\* C22: in every reachable state, executing an order when the opposite ladder
\* has no level at exactly its price returns (it neither aborts nor loops)
\* with an empty fill list and leaves the book as it is: the filled of the
\* order, its place in its own FIFO and both ladders are unchanged.
C22_EmptyExecute ==
  /\ \A side \in Sides : \A id \in BookIds(engine, side) :
       NoLevelAtPrice(engine, side, id) =>
         /\ Returns(book_execute(engine, side, id))
         /\ book_execute(engine, side, id).executions = <<>>
         /\ book_execute(engine, side, id).book = engine
  /\ \A side \in Sides : \A id \in BookIds(core, side) :
       NoLevelAtPrice(core, side, id) =>
         /\ core_book_execute(core, side, id).executions = <<>>
         /\ core_book_execute(core, side, id).book = core

\* witness of C22: on both books a live, partly filled order rests whose
\* price has no level on the opposite ladder, while that ladder holds a level
\* at another price
C22_Witness ==
  \E side \in Sides : \E id \in BookIds(core, side) \cap BookIds(engine, side) :
    /\ NoLevelAtPrice(core, side, id) /\ NoLevelAtPrice(engine, side, id)
    /\ LiveResting(core, side, id) /\ LiveResting(engine, side, id)
    /\ OrderOf(Ladder(core, side), id).filled > 0
    /\ Ladder(core, Opposite(side)).limit_levels # <<>>
    /\ Ladder(engine, Opposite(side)).limit_levels # <<>>

\* ------------------------------------------------------------------ C23
\* the resting orders of the opposite ladder at prices other than p keep
\* their filled quantity
OtherPricesUnfilled(book, after, side, p) ==
  \A o \in BookIds(book, Opposite(side)) :
    OrderOf(Ladder(book, Opposite(side)), o).price # p =>
      OrderOf(Ladder(after, Opposite(side)), o).filled
        = OrderOf(Ladder(book, Opposite(side)), o).filled

\* what C23 says of execute(side, id), the order having price p
ExactPriceOnly(book, after, side, p) ==
  /\ OtherLevels(after, Opposite(side), p) = OtherLevels(book, Opposite(side), p)
  /\ OtherPricesUnfilled(book, after, side, p)
  /\ Ladder(after, side).limit_levels = Ladder(book, side).limit_levels

EngineExactPriceOnly(side, id, r) ==
  Returns(r) => ExactPriceOnly(engine, r.book, side, Incoming(engine, side, id).price)

\* C23: in every reachable state, whatever order is executed, the levels of
\* the opposite ladder at every other price (better-priced ones included)
\* keep their queues and their orders keep their filled quantity, and the
\* levels of the executed order's own ladder are unchanged.
C23_ExactPriceOnly ==
  /\ \A side \in Sides : \A id \in BookIds(engine, side) :
       EngineExactPriceOnly(side, id, book_execute(engine, side, id))
  /\ \A side \in Sides : \A id \in BookIds(core, side) :
       ExactPriceOnly(core, core_book_execute(core, side, id).book, side,
                      Incoming(core, side, id).price)

\* witness of C23: on both books an execute fills an order at its price while
\* the opposite ladder holds a level at a better price
C23_Witness ==
  \E id \in BookIds(core, Bid) \cap BookIds(engine, Bid) :
    /\ Incoming(core, Bid, id).price = MaxPrice /\ Incoming(engine, Bid, id).price = MaxPrice
    /\ Len(core.asks.limit_levels) >= 2 /\ Len(engine.asks.limit_levels) >= 2
    /\ core_book_execute(core, Bid, id).executions # <<>>
    /\ Returns(book_execute(engine, Bid, id))
    /\ book_execute(engine, Bid, id).executions # <<>>

\* ------------------------------------------------------------------ C28
\* Option values: Some(x) is <<x>>, None is <<>>
Some(x) == <<x>>

None == <<>>

\* the prices at which a side of a book has a level
LevelPrices(book, side) == KeyPrices(KeyType(side), Ladder(book, side))

\* the lowest ask price and the highest bid price of a book with levels
LowestAsk(book) == CHOOSE p \in LevelPrices(book, Ask) : IsMin(p, LevelPrices(book, Ask))

HighestBid(book) == CHOOSE p \in LevelPrices(book, Bid) : IsMax(p, LevelPrices(book, Bid))

Distance(a, b) == IF a > b THEN a - b ELSE b - a

\* what C28 says spread yields on a book
SpreadWanted(book) ==
  IF LevelPrices(book, Ask) # {} /\ LevelPrices(book, Bid) # {}
    THEN Some(Distance(LowestAsk(book), HighestBid(book)))
    ELSE None

\* the engine-crate spread returns a Price, which is a value in every case
EngineSpreadDefined == Some(spread(engine)) = SpreadWanted(engine)

CoreSpreadDefined == core_spread(core) = SpreadWanted(core)

\* C28: in every reachable state spread() yields a value only when both
\* sides hold a level, the absolute difference of best ask and best bid, and
\* no value when either side is empty.
C28_SpreadDefined == EngineSpreadDefined /\ CoreSpreadDefined

\* ------------------------------------------------------------------ C30
\* what C30 says the two market prices are on a book
BidMarketWanted(book) ==
  IF LevelPrices(book, Bid) = {} THEN None ELSE Some(HighestBid(book))

AskMarketWanted(book) ==
  IF LevelPrices(book, Ask) = {} THEN None ELSE Some(LowestAsk(book))

AskMarketPrice == ask_market_price(core) = AskMarketWanted(core)

BidMarketPrice == bid_market_price(core) = BidMarketWanted(core)

\* C30: in every reachable state bid_market_price() is the highest price
\* among the bid levels, or none when there are no bids, whatever the ask side
\* holds, and ask_market_price() is the lowest ask price.
C30_MarketPrices == AskMarketPrice /\ BidMarketPrice

\* ------------------------------------------------------------------ C25
\* the call answered r as the match on the command kind answers d: the hook
\* neither rejected nor aborted the command
HookPasses(r, d) == r.tag = d.tag /\ r.kind = d.kind /\ r.val = d.val /\ r.m = d.m

EngineHookPasses ==
  ~meDown => \A a \in Registered : \A kind \in CommandKinds(me) :
               HookPasses(try_process(me, Command(a, kind)), dispatch(me, kind))

CoreHookPasses ==
  ~meDown => \A a \in Registered : \A kind \in CommandKinds(me) :
               HookPasses(core_try_process(me, Command(a, kind)), dispatch(me, kind))

\* C25: in every reachable state, for a command whose account_id is
\* registered, try_process answers what the dispatch on the command kind
\* answers: the validation hook neither rejects nor aborts it.
C25_HookIsNoOp == EngineHookPasses /\ CoreHookPasses

\* ------------------------------------------------------------------ C29
\* the answer r to GetQuote(symbol, side) on engine m: the best price of the
\* side when it has a level, a failure when it has none, m unchanged
QuoteAnswered(m, symbol, side, r) ==
  /\ r.m = m
  /\ LevelPrices(m.books[symbol], side) # {} =>
       /\ r.tag = "Ok" /\ r.kind = "GetQuote"
       /\ IF side = Bid THEN IsMax(r.val, LevelPrices(m.books[symbol], side))
                        ELSE IsMin(r.val, LevelPrices(m.books[symbol], side))
  /\ LevelPrices(m.books[symbol], side) = {} => r.tag = "Err"

\* the part of C29 about a side with a level, and about the engine state
QuoteOfLevels(m, symbol, side, r) ==
  /\ r.m = m
  /\ LevelPrices(m.books[symbol], side) # {} =>
       /\ r.tag = "Ok" /\ r.kind = "GetQuote"
       /\ IF side = Bid THEN IsMax(r.val, LevelPrices(m.books[symbol], side))
                        ELSE IsMin(r.val, LevelPrices(m.books[symbol], side))

\* C29: in every reachable state GetQuote(symbol, side) from a registered
\* account on an existing symbol returns the best price of the side when the
\* side has a level and fails when the side is empty, and never changes the
\* engine.
C29_QuoteOrFail ==
  ~meDown => \A a \in Registered, symbol \in DOMAIN me.books, side \in Sides :
               QuoteAnswered(me, symbol, side, try_process(me, Command(a, GetQuote(symbol, side))))

QuotesBestOfLevels ==
  ~meDown => \A a \in Registered, symbol \in DOMAIN me.books, side \in Sides :
               QuoteOfLevels(me, symbol, side, try_process(me, Command(a, GetQuote(symbol, side))))

\* ------------------------------------------------------------------ C26
\* (I2) every id queued in the FIFO of a level has the price of the level
LevelPricesAgree(book, side) ==
  \A i \in 1..Len(Ladder(book, side).limit_levels) :
    \A k \in 1..Len(Ladder(book, side).limit_levels[i].fifo) :
      OrderOf(Ladder(book, side), Ladder(book, side).limit_levels[i].fifo[k]).price
        = Into(KeyType(side), Ladder(book, side).limit_levels[i].key)

I2(book) == LevelPricesAgree(book, Bid) /\ LevelPricesAgree(book, Ask)

\* the id is the last of the FIFO
AtTail(fifo, id) == fifo # <<>> /\ fifo[Len(fifo)] = id

\* after is the book with the order id of the side moved from the level of
\* price old to the tail of the level of price p
Rekeyed(book, after, side, id, old, p) ==
  /\ AtTail(LevelOf(after, side, p), id)
  /\ LevelOf(after, side, old) = Without(LevelOf(book, side, old), id)
  /\ HasLevel(after, side, old) <=> (LevelOf(after, side, old) # <<>>)
  /\ OrderOf(Ladder(after, side), id).price = p

\* the price update of a queued order to another price was carried out with
\* the order rekeyed, or rejected with nothing changed
RekeyedOrRejected(book, side, id, p, r) ==
  \/ r.ret /\ Rekeyed(book, r.book, side, id, OrderOf(Ladder(book, side), id).price, p)
  \/ ~r.ret /\ r.book = book

PriceUpdates(book, side, id) == Prices \ {OrderOf(Ladder(book, side), id).price}

QueuedIds(book, side) == {id \in BookIds(book, side) : Queued(Ladder(book, side), id)}

EngineUpdateRekeys ==
  \A side \in Sides : \A id \in QueuedIds(engine, side) : \A p \in PriceUpdates(engine, side, id) :
    RekeyedOrRejected(engine, side, id, p, book_update(engine, side, id, <<p>>, <<>>))

CoreUpdateRekeys ==
  \A side \in Sides : \A id \in QueuedIds(core, side) : \A p \in PriceUpdates(core, side, id) :
    RekeyedOrRejected(core, side, id, p, core_update(core, side, id, <<p>>, <<>>))

\* C26: in every state reachable under insert, update, cancel and execute,
\* every id queued in the FIFO of a level has the price of the level, and an
\* update of the price of a queued order either moves the id to the tail of
\* the level of the new price, out of the old level (dropped when left
\* empty), or is rejected and changes nothing.
C26_I2UnderUpdate == I2(engine) /\ I2(core) /\ EngineUpdateRekeys /\ CoreUpdateRekeys

\* ------------------------------------------------------------------ C27
\* the quantities below the filled of an order
BelowFilled(book, side, id) ==
  {q \in Quantities : q < OrderOf(Ladder(book, side), id).filled}

\* an update of the quantity below filled is rejected and changes nothing
ShortQuantityRejected(book, r) == ~r.ret /\ r.book = book

\* an accepted update of the quantity leaves every FIFO of the side as it was
PositionKept(book, side, r) ==
  r.ret => Ladder(r.book, side).limit_levels = Ladder(book, side).limit_levels

EngineRejectsShortQuantity ==
  \A side \in Sides : \A id \in BookIds(engine, side) : \A q \in BelowFilled(engine, side, id) :
    ShortQuantityRejected(engine, book_update(engine, side, id, <<>>, <<q>>))

CoreRejectsShortQuantity ==
  \A side \in Sides : \A id \in BookIds(core, side) : \A q \in BelowFilled(core, side, id) :
    ShortQuantityRejected(core, core_update(core, side, id, <<>>, <<q>>))

QuantityUpdateKeepsPosition ==
  \A side \in Sides : \A id \in Ids(side) : \A q \in Quantities :
    /\ PositionKept(engine, side, book_update(engine, side, id, <<>>, <<q>>))
    /\ PositionKept(core, side, core_update(core, side, id, <<>>, <<q>>))

\* C27: in every state reachable under insert, update, cancel and execute,
\* an update of an order's quantity to less than its filled is rejected and
\* leaves the order unchanged, every order has filled <= quantity, and an
\* accepted quantity change leaves the id at its position in its FIFO.
C27_QuantityNotBelowFilled ==
  /\ EngineRejectsShortQuantity /\ CoreRejectsShortQuantity
  /\ NoOverfill(engine) /\ NoOverfill(core)
  /\ QuantityUpdateKeepsPosition

\* ------------------------------------------------------------------ C24
\* connection c holds the guard of the mutex
Holding(c) == conn[c].pc \in {"locked", "running", "returned", "hung"}

\* a try_process call of connection c is in progress
Running(c) == conn[c].pc \in {"running", "hung"}

\* at most one connection holds the guard, and the mutex names it
MutualExclusion ==
  /\ \A c1, c2 \in Connections : Holding(c1) /\ Holding(c2) => c1 = c2
  /\ \A c \in Connections : Holding(c) => mutex.holder = c

\* a call in progress holds the guard, and the engine is as the call found it
CallsInsideLock ==
  \A c \in Connections : Running(c) => mutex.holder = c /\ conn[c].seen = <<me>>

\* the calls of the log from its entry i on, made one after the other on the
\* engine m, answer as logged and leave the shared engine
RECURSIVE Replayed(_, _)
ReplayedEntry(r, i) ==
  /\ r.tag = log[i].tag /\ r.kind = log[i].kind /\ r.val = log[i].val
  /\ Replayed(r.m, i + 1)

Replayed(m, i) ==
  IF i > Len(log) THEN m = me ELSE ReplayedEntry(try_process(m, log[i].command), i)

\* the commands of connection c in the log, in the order of the log
RECURSIVE OfConnection(_, _)
OfConnection(entries, c) ==
  IF entries = <<>>
    THEN <<>>
    ELSE IF Head(entries).conn = c
           THEN <<Head(entries).command>> \o OfConnection(Tail(entries), c)
           ELSE OfConnection(Tail(entries), c)

IsPrefix(s, t) == Len(s) <= Len(t) /\ \A i \in 1..Len(s) : s[i] = t[i]

\* the log keeps the order in which each connection sent its commands
OwnOrderKept == \A c \in Connections : IsPrefix(OfConnection(log, c), conn[c].sent)

\* C24: with several connection threads on one shared MatchEngine, in every
\* reachable state at most one thread is between lock() and the drop of the
\* guard, a try_process call in progress runs with the guard held on the
\* engine state it started from, and the results returned so far and the
\* engine state are those of making the logged calls one after the other, in
\* an order that keeps each connection's own order.
C24_Serialized ==
  MutualExclusion /\ CallsInsideLock /\ Replayed(ServerEngine, 1) /\ OwnOrderKept

\* witness of C24: each connection had an order placed, one is inside its
\* second try_process call and the other waits for the lock with its second
\* command
C24_Witness ==
  /\ Len(log) = 2 /\ log[1].conn # log[2].conn
  /\ me.next_order_id = 2
  /\ \E c1, c2 \in Connections :
       /\ conn[c1].pc = "running" /\ conn[c2].pc = "received"
       /\ Len(conn[c1].sent) = 2 /\ Len(conn[c2].sent) = 2

\* ------------------------------------------------------------------ C31
\* the head of the best level of a side, <<>> when the side has no level
BestHead(book, side) ==
  IF Ladder(book, side).limit_levels = <<>>
    THEN <<>>
    ELSE <<Ladder(book, side).limit_levels[1].fifo[1]>>

\* what C31 says first() gives when the heads of the two sides are ask and bid
FirstWanted(ask, bid) ==
  IF ask # <<>> /\ bid # <<>>
    THEN IF ask[1] <= bid[1] THEN Some(<<Ask, ask[1]>>) ELSE Some(<<Bid, bid[1]>>)
    ELSE IF ask # <<>>
           THEN Some(<<Ask, ask[1]>>)
           ELSE IF bid # <<>> THEN Some(<<Bid, bid[1]>>) ELSE None

\* the two heads carry different ids, or a side has no head
NoTie(ask, bid) == ask = <<>> \/ bid = <<>> \/ ask[1] # bid[1]

\* the part of C31 without the tie
FirstWithoutTie ==
  NoTie(BestHead(engine, Ask), BestHead(engine, Bid)) =>
    book_first(engine) = FirstWanted(BestHead(engine, Ask), BestHead(engine, Bid))

\* C31: in every reachable state first() is the side whose best-level head
\* has the lower id with that id, the ask when the two heads carry the same
\* id, the head of the other side when one side is empty, and none when both
\* are empty.
C31_FirstOldestHead ==
  book_first(engine) = FirstWanted(BestHead(engine, Ask), BestHead(engine, Bid))

\* ------------------------------------------------------------------ C32
\* (I3) no key of the level map of a side has an empty FIFO
NoEmptyLevel(book, side) ==
  \A i \in 1..Len(Ladder(book, side).limit_levels) :
    Ladder(book, side).limit_levels[i].fifo # <<>>

I3(book) == NoEmptyLevel(book, Bid) /\ NoEmptyLevel(book, Ask)

\* C32: in every reachable state, that is after every insert, cancel and
\* execute, every price key of both ladders of both books maps to a non-empty
\* FIFO: a level emptied by cancel or by execute is removed by that call.
C32_NoEmptyLevel == I3(engine) /\ I3(core)

\* an order of the side was matched as a resting order and execute removed
\* the level of its price, which it left empty (an order matched as the
\* executed order stays queued, so its level is not gone)
MatchedLevelGone(book, side) ==
  \E id \in BookIds(book, side) :
    /\ OrderOf(Ladder(book, side), id).filled > 0
    /\ ~OrderOf(Ladder(book, side), id).is_cancelled
    /\ ~HasLevel(book, side, OrderOf(Ladder(book, side), id).price)

\* an order of the side was cancelled and cancel removed the level of its
\* price, which it left empty
CancelledLevelGone(book, side) ==
  \E id \in BookIds(book, side) :
    /\ OrderOf(Ladder(book, side), id).is_cancelled
    /\ ~HasLevel(book, side, OrderOf(Ladder(book, side), id).price)

\* witness of C32: on both books an execute removed a level it emptied and a
\* cancel removed a level it emptied
C32_Witness ==
  /\ \E side \in Sides : MatchedLevelGone(engine, side)
  /\ \E side \in Sides : MatchedLevelGone(core, side)
  /\ \E side \in Sides : CancelledLevelGone(engine, side)
  /\ \E side \in Sides : CancelledLevelGone(core, side)

\* ------------------------------------------------------------------ C33
\* the positions of the FIFOs of a ladder: (index of the level, index in it)
Positions(L) ==
  UNION {{<<i, k>> : k \in 1..Len(L.limit_levels[i].fifo)} : i \in 1..Len(L.limit_levels)}

\* the id at a position
IdAt(L, pos) == L.limit_levels[pos[1]].fifo[pos[2]]

\* (I1) every queued id is in range of orders and its order is not cancelled,
\* and no id is queued at two positions
QueuedValid(L) ==
  /\ \A pos \in Positions(L) :
       /\ IdAt(L, pos) \in IdsOf(L)
       /\ ~OrderOf(L, IdAt(L, pos)).is_cancelled
  /\ \A p1, p2 \in Positions(L) : IdAt(L, p1) = IdAt(L, p2) => p1 = p2

I1(book) == QueuedValid(book.bids) /\ QueuedValid(book.asks)

\* C33: in every reachable state of both books, every id held in a FIFO is
\* within range of the orders array of its ladder and names an order that is
\* not cancelled, and no id occurs twice, neither in two levels nor twice in
\* one level.
C33_QueuedIdsValid == I1(engine) /\ I1(core)

\* witness of C33: on both books orders were matched and an order was
\* cancelled, and a side still queues two ids
C33_Witness ==
  /\ volume.engine > 0 /\ volume.core > 0
  /\ cancelled.engine \cap cancelled.core # {}
  /\ \E side \in Sides :
       /\ Cardinality(Positions(Ladder(engine, side))) >= 2
       /\ Cardinality(Positions(Ladder(core, side))) >= 2

\* ------------------------------------------------------------------ C34
\* from ladder L to ladder M the records only move forward: no record is
\* dropped, filled does not decrease, a cancelled record stays cancelled, and
\* price and quantity are kept
RecordsForward(L, M) ==
  /\ Len(M.orders) >= Len(L.orders)
  /\ \A id \in IdsOf(L) :
       /\ OrderOf(M, id).filled >= OrderOf(L, id).filled
       /\ OrderOf(L, id).is_cancelled => OrderOf(M, id).is_cancelled
       /\ OrderOf(M, id).price = OrderOf(L, id).price
       /\ OrderOf(M, id).quantity = OrderOf(L, id).quantity

Forward(book, after) ==
  RecordsForward(book.bids, after.bids) /\ RecordsForward(book.asks, after.asks)

MatchedThenCancelled(book) ==
  \E side \in Sides : \E id \in BookIds(book, side) :
    /\ OrderOf(Ladder(book, side), id).is_cancelled
    /\ OrderOf(Ladder(book, side), id).filled > 0

TakerDone(after, side, id) ==
  \/ is_filled(Incoming(after, side, id))
  \/ ~HasLevel(after, Opposite(side), Incoming(after, side, id).price)

\* the engine-crate execute answered r: when it returned, the order is done
\* and the flag returned is filled >= quantity of the order
EngineTakerDone(side, id, r) ==
  Returns(r) =>
    /\ TakerDone(r.book, side, id)
    /\ r.is_filled = (Incoming(r.book, side, id).filled >= Incoming(r.book, side, id).quantity)

\* C35: in every reachable state, after an execute that returns either the
\* executed order is fully filled or the opposite ladder has no level left at
\* its price, and the is_filled flag the engine-crate execute returns equals
\* filled >= quantity of the order.
C35_NoLiquidityLeft ==
  /\ \A side \in Sides : \A id \in BookIds(engine, side) :
       EngineTakerDone(side, id, book_execute(engine, side, id))
  /\ \A side \in Sides : \A id \in BookIds(core, side) :
       TakerDone(core_book_execute(core, side, id).book, side, id)

\* the core-crate execute of (side, id) matches, empties the level and leaves
\* the order with a remaining quantity
CoreExhaustsLevel(side, id, r) ==
  /\ r.executions # <<>>
  /\ ~is_filled(Incoming(r.book, side, id))
  /\ HasLevel(core, Opposite(side), Incoming(core, side, id).price)

\* the engine-crate execute of (side, id) returns with fills
EngineMatches(r) == Returns(r) /\ r.executions # <<>> /\ r.is_filled

\* witness of C35: a state in which an execute on the core-crate book uses up
\* the level and one on the engine-crate book returns with the order filled
C35_Witness ==
  /\ \E side \in Sides : \E id \in BookIds(core, side) :
       CoreExhaustsLevel(side, id, core_book_execute(core, side, id))
  /\ \E side \in Sides : \E id \in BookIds(engine, side) :
       EngineMatches(book_execute(engine, side, id))

\* ------------------------------------------------------------------ C36
\* the fully filled orders of a side that are not cancelled
FilledOpen(book, side) ==
  {id \in BookIds(book, side) :
     /\ OrderOf(Ladder(book, side), id).filled = OrderOf(Ladder(book, side), id).quantity
     /\ ~OrderOf(Ladder(book, side), id).is_cancelled}

\* the cancel answered r: false, with the book as it was
CancelRefused(book, r) == ~r.ret /\ r.book = book

\* the part of C36 about orders that are in no FIFO
FilledUnqueuedNotCancelled ==
  \A side \in Sides : \A id \in FilledOpen(core, side) :
    ~Queued(Ladder(core, side), id) => CancelRefused(core, core_cancel(core, side, id))

\* C36: in every reachable state, cancel on an order with filled = quantity
\* returns false and does not set its cancelled flag, whether the order was
\* filled as a resting order or as the executed order.
C36_FilledNotCancellable ==
  /\ \A side \in Sides : \A id \in FilledOpen(engine, side) :
       CancelRefused(engine, book_cancel(engine, side, id))
  /\ \A side \in Sides : \A id \in FilledOpen(core, side) :
       CancelRefused(core, core_cancel(core, side, id))

\* ------------------------------------------------------------------ C37
\* a try_process call has aborted (the guard dropped by the unwinding thread
\* poisoned the mutex) and connection c is between two commands
AbortedBefore(c) == mutex.poisoned /\ conn[c].pc = "idle"

\* connection c has a command that try_process was not yet called with
Submitted(c) == conn[c].pc = "received"

\* try_process is called with the command of connection c
Processing(c) == conn[c].pc = "running"

\* C37: once a try_process call has aborted on a connection, every command
\* another connection submits from then on is eventually passed to
\* try_process.
C37_ServiceSurvivesAbort ==
  \A c \in Connections : [](AbortedBefore(c) => [](Submitted(c) => <>Processing(c)))

\* ------------------------------------------------------------------ C38
\* the (id, quantity) of the fills (id, quantity, is_filled) the engine-crate
\* execute returns
IdQuantity(executions) ==
  [i \in 1..Len(executions) |-> <<executions[i][1], executions[i][2]>>]

\* the two executes answered e and c: same fills, same book left
SameMatch(e, c) ==
  /\ Returns(e)
  /\ IdQuantity(e.executions) = c.executions
  /\ e.book = c.book

\* the two books answer every cancel alike
SameCancel(e, c) == e.ret = c.ret /\ e.book = c.book

\* the part of C38 about insert and cancel
SameUnlessExecuted ==
  engine = core =>
    /\ \A side \in Sides : \A id \in BookIds(core, side) :
         SameCancel(book_cancel(engine, side, id), core_cancel(core, side, id))
    /\ \A side \in Sides, price \in Prices, quantity \in Quantities :
         book_insert(engine, side, new(price, quantity)) = core_insert(core, side, new(price, quantity))

\* C38: run side by side on the same inserts, cancels and executes, the two
\* books are equal in every reachable state (same level contents, same order
\* records), and every execute returns the same (id, quantity) fills on both
\* and leaves the same book.
C38_LaddersEquivalent ==
  /\ engine = core
  /\ \A side \in Sides : \A id \in BookIds(core, side) :
       SameMatch(book_execute(engine, side, id), core_book_execute(core, side, id))

\* ------------------------------------------------------------------ C39
\* the ids create_account has returned on engine m are 0, 1, .. in turn, and
\* each still has its account
AccountsDense(m) == DOMAIN m.accounts = 0..(m.next_account_id - 1)

\* create_account on m answered r: a fresh id above every id in use, a default
\* account under it, every other account and the rest of the engine kept
CreatesFresh(m, r) ==
  /\ r.id \notin DOMAIN m.accounts
  /\ \A old \in DOMAIN m.accounts : r.id > old
  /\ DOMAIN r.m.accounts = DOMAIN m.accounts \cup {r.id}
  /\ r.m.accounts[r.id].balance = 0
  /\ r.m.accounts[r.id].orders = <<>>
  /\ DOMAIN r.m.accounts[r.id].portfolio = {}
  /\ \A old \in DOMAIN m.accounts : r.m.accounts[old] = m.accounts[old]
  /\ [r.m EXCEPT !.accounts = m.accounts, !.next_account_id = m.next_account_id] = m

\* two calls of create_account in a row return increasing ids
CreatesIncreasing(m, r) ==
  /\ CreatesFresh(m, r)
  /\ CreatesFresh(r.m, create_account(r.m))
  /\ create_account(r.m).id > r.id

\* GetAccount(id) on m answered r: the account of an id returned, the error
\* AccountDoesNotExist for any other id, m unchanged
AccountAnswered(m, id, r) ==
  /\ r.m = m
  /\ id \in 0..(m.next_account_id - 1) =>
       r.tag = "Ok" /\ r.kind = "GetAccount" /\ r.val = m.accounts[id]
  /\ id \notin 0..(m.next_account_id - 1) => IsErr(r, "AccountDoesNotExist", id)

\* C39: in every reachable state the accounts are those of the ids 0, 1, ..
\* returned so far (none is removed), create_account returns the next id,
\* above every id in use, and stores a default account under it, and
\* GetAccount(id) from a registered account succeeds with the account for
\* every id returned and fails with AccountDoesNotExist for any other id,
\* leaving the engine unchanged.
C39_AccountsFresh ==
  /\ AccountsDense(me)
  /\ CreatesIncreasing(me, create_account(me))
  /\ ~meDown => \A a \in Registered : \A id \in AccountIds :
                  AccountAnswered(me, id, try_process(me, Command(a, GetAccount(id))))

\* witness of C39: an account was created and orders were placed; GetAccount
\* succeeds for its id and fails for the next id
C39_Witness ==
  /\ ~meDown /\ me.next_account_id = MaxAccounts /\ me.next_order_id > 0
  /\ try_process(me, Command(0, GetAccount(0))).tag = "Ok"
  /\ try_process(me, Command(0, GetAccount(MaxAccounts))).kind = "AccountDoesNotExist"

\* ------------------------------------------------------------------ C40
\* the quantity the claim gives for fill(ask, bid): the smaller remaining
\* quantity when neither order is filled and the prices are equal, else 0
FillWanted(ask, bid) ==
  IF ask.filled < ask.quantity /\ bid.filled < bid.quantity /\ ask.price = bid.price
    THEN IF bid.quantity - bid.filled <= ask.quantity - ask.filled
           THEN bid.quantity - bid.filled
           ELSE ask.quantity - ask.filled
    ELSE 0

\* the bid and the ask of the unit test
TestBid == [price |-> TestPrice, quantity |-> TestQuantity, filled |-> TestFilled]

TestAsk == AskOrder_new(TestPrice, TestQuantity)

\* C40: fill on any two orders returns the smaller of the two remaining
\* quantities when neither order is filled and their prices are equal, and 0
\* otherwise, the same with the arguments swapped; every call made returned
\* that quantity; the bid of 100 with 20 filled against the fresh ask of 100
\* at the same price gives 80.
C40_FillIsMinRemaining ==
  /\ fill(askOrder, bidOrder) = FillWanted(askOrder, bidOrder)
  /\ fill(bidOrder, askOrder) = fill(askOrder, bidOrder)
  /\ fillCall # <<>> => fillCall.quantity = FillWanted(fillCall.ask, fillCall.bid)
  /\ fill(TestBid, TestAsk) = TestQuantity - TestFilled
  /\ fill(TestAsk, TestBid) = TestQuantity - TestFilled

\* witness of C40: the call of the unit test returned 80
C40_Witness ==
  /\ fillCall # <<>>
  /\ fillCall.ask = TestBid /\ fillCall.bid = TestAsk
  /\ fillCall.quantity = 80

\* fill returned 0 for a filled order, for an order filled above its
\* quantity, and for unequal prices; and a quantity below both quantities
C40_WitnessZero ==
  /\ fillCall # <<>>
  /\ fillCall.quantity = 0
  /\ fillCall.ask.filled > fillCall.ask.quantity
  /\ fillCall.bid.filled < fillCall.bid.quantity
  /\ fillCall.ask.price = fillCall.bid.price

====
